---- MODULE Spec2Model ----
(***************************************************************************)
(* Policy validation, configuration derivation and composite assembly of  *)
(* x-infra-kit.                                                            *)
(*                                                                         *)
(* The library is synchronous and single-threaded: a caller invokes one of *)
(* the exported validators, constructors or profile methods with some      *)
(* input and either gets a value back or an Error is thrown.  A behaviour  *)
(* of the model is one such call, followed by any number of reads of the   *)
(* returned object's computed properties: Init draws the call and its      *)
(* input, the call's action applies the code to it and records what the    *)
(* caller observes and which resources were registered with the engine.    *)
(*                                                                         *)
(* Strings that the code only compares or copies are TLA+ strings.  The    *)
(* master CIDR, which the code parses, is a sequence of one-character      *)
(* strings.  An optional argument (x?: T, read with `??`) is a set holding *)
(* at most one value: {} when the caller left it out.  A thrown Error is a *)
(* record; `kind` names the error of the taxonomy its throw site belongs   *)
(* to and the other fields hold what the message interpolates.             *)
(***************************************************************************)
EXTENDS Integers, Sequences, FiniteSets, TLC

VARIABLES
    ALLOWED_ENVIRONMENTS,   \* module constant of constraints (cluster.ts:150)
    ALLOWED_REGIONS,        \* module constant (cluster.ts:158)
    ALLOWED_MACHINE_TYPES,  \* module constant (cluster.ts:172)
    CONSTRAINTS,            \* module constant (cluster.ts:192)
    op,                     \* the function or constructor being called
    pc,                     \* "call": about to run, "done": returned or threw
    str,                    \* argument of an allow-list validator
    num,                    \* argument of a numeric validator
    cidr,                   \* argument of validateMasterCidr
    args,                   \* argument object of a constructor or method
    self,                   \* the object a method is called on
    thrown,                 \* {} or the one Error the call threw
    returned,               \* {} or the one object the call returned
    declared,               \* the resources the call has registered, in order
    got,                    \* the last property read from the returned object
    held                    \* what earlier calls on self returned to the caller

tables == <<ALLOWED_ENVIRONMENTS, ALLOWED_REGIONS, ALLOWED_MACHINE_TYPES, CONSTRAINTS>>
inputs == <<op, str, num, cidr, args, self>>
vars == <<ALLOWED_ENVIRONMENTS, ALLOWED_REGIONS, ALLOWED_MACHINE_TYPES, CONSTRAINTS,
          op, pc, str, num, cidr, args, self, thrown, returned, declared, got, held>>

(***************************************************************************)
(* Bounds of the model.                                                    *)
(***************************************************************************)
\* numeric validators are called with every integer of -MaxInt..MaxInt
MaxInt == 203

\* the longest secretIds list handed to StandardSecrets
MaxSecretIds == 3

(***************************************************************************)
(* Constraint tables: the literals the module constants are loaded with.   *)
(***************************************************************************)
Environments == <<"dev", "staging", "prod">>

Regions == <<"europe-west1", "europe-west3", "europe-west4", "us-central1", "us-east1">>

MachineTypes_Eleven ==
    <<"e2-micro", "e2-small", "e2-medium", "e2-standard-2", "e2-standard-4",
      "n2-standard-2", "n2-standard-4", "n2-standard-8", "n2-highmem-2", "n2-highmem-4",
      "n2-highmem-8">>

MachineTypes ==
    <<"e2-micro", "e2-small", "e2-medium", "e2-standard-2", "e2-standard-4",
      "n2-standard-2", "n2-standard-4", "n2-standard-8", "n2-highmem-2", "n2-highmem-4">>

NumericConstraints ==
    [maxNodes  |-> [min |-> 1,  max |-> 50],
     diskSize  |-> [min |-> 30, max |-> 200],
     nodeCount |-> [min |-> 1,  max |-> 20]]

(***************************************************************************)
(* Array.prototype.includes and Array.prototype.join on arrays of strings. *)
(***************************************************************************)
Includes(list, x) == \E i \in 1..Len(list) : list[i] = x

RECURSIVE Join(_, _)
Join(list, sep) ==
    IF Len(list) = 0 THEN ""
    ELSE IF Len(list) = 1 THEN list[1]
    ELSE list[1] \o sep \o Join(Tail(list), sep)

(***************************************************************************)
(* Allow-list validators.  Each returns the set of Errors it throws: {}    *)
(* when it returns normally.                                               *)
(***************************************************************************)
validateEnvironment_AcceptAll(env) == {}

validateEnvironment(env) ==
    IF ~Includes(ALLOWED_ENVIRONMENTS, env)
    THEN {[kind |-> "InvalidEnvironment", text |-> "Invalid environment",
           value |-> env, allowed |-> Join(ALLOWED_ENVIRONMENTS, ", ")]}
    ELSE {}

validateRegion_Inverted(region) ==
    IF Includes(ALLOWED_REGIONS, region)
    THEN {[kind |-> "InvalidRegion", text |-> "Invalid region",
           value |-> region, allowed |-> Join(ALLOWED_REGIONS, ", ")]}
    ELSE {}

validateRegion(region) ==
    IF ~Includes(ALLOWED_REGIONS, region)
    THEN {[kind |-> "InvalidRegion", text |-> "Invalid region",
           value |-> region, allowed |-> Join(ALLOWED_REGIONS, ", ")]}
    ELSE {}

validateMachineType_WrongList(machineType) ==
    IF ~Includes(ALLOWED_MACHINE_TYPES, machineType)
    THEN {[kind |-> "InvalidMachineType", text |-> "Invalid machine type",
           value |-> machineType, allowed |-> Join(ALLOWED_REGIONS, ", ")]}
    ELSE {}

validateMachineType(machineType) ==
    IF ~Includes(ALLOWED_MACHINE_TYPES, machineType)
    THEN {[kind |-> "InvalidMachineType", text |-> "Invalid machine type",
           value |-> machineType, allowed |-> Join(ALLOWED_MACHINE_TYPES, ", ")]}
    ELSE {}

(***************************************************************************)
(* Numeric validators.                                                     *)
(***************************************************************************)
validateMaxNodes(maxNodes) ==
    IF maxNodes < CONSTRAINTS.maxNodes.min \/ maxNodes > CONSTRAINTS.maxNodes.max
    THEN {[kind |-> "OutOfRange", text |-> "maxNodes must be between",
           min |-> CONSTRAINTS.maxNodes.min, max |-> CONSTRAINTS.maxNodes.max,
           got |-> maxNodes]}
    ELSE {}

validateDiskSize_Exclusive(diskSize) ==
    IF diskSize <= CONSTRAINTS.diskSize.min \/ diskSize >= CONSTRAINTS.diskSize.max
    THEN {[kind |-> "OutOfRange", text |-> "diskSize must be between",
           min |-> CONSTRAINTS.diskSize.min, max |-> CONSTRAINTS.diskSize.max,
           got |-> diskSize]}
    ELSE {}

validateDiskSize(diskSize) ==
    IF diskSize < CONSTRAINTS.diskSize.min \/ diskSize > CONSTRAINTS.diskSize.max
    THEN {[kind |-> "OutOfRange", text |-> "diskSize must be between",
           min |-> CONSTRAINTS.diskSize.min, max |-> CONSTRAINTS.diskSize.max,
           got |-> diskSize]}
    ELSE {}

validateNodeCount(nodeCount) ==
    IF nodeCount < CONSTRAINTS.nodeCount.min \/ nodeCount > CONSTRAINTS.nodeCount.max
    THEN {[kind |-> "OutOfRange", text |-> "nodeCount must be between",
           min |-> CONSTRAINTS.nodeCount.min, max |-> CONSTRAINTS.nodeCount.max,
           got |-> nodeCount]}
    ELSE {}

(***************************************************************************)
(* validateMasterCidr.  Positions of a string are 1..Len(s); the regular   *)
(* expression is run as the set of positions a prefix of it can end at.    *)
(* octets[i] of the code (0-based) is octets[i + 1] here.                  *)
(***************************************************************************)
Digits == {"0", "1", "2", "3", "4", "5", "6", "7", "8", "9"}

DigitValue ==
    ("0" :> 0) @@ ("1" :> 1) @@ ("2" :> 2) @@ ("3" :> 3) @@ ("4" :> 4) @@
    ("5" :> 5) @@ ("6" :> 6) @@ ("7" :> 7) @@ ("8" :> 8) @@ ("9" :> 9)

\* \d{1,3} started at any position of P: the positions right after a match
MatchDigits(s, P) ==
    UNION { { p + k : k \in { n \in 1..3 : /\ p + n - 1 <= Len(s)
                                          /\ \A j \in p..(p + n - 1) : s[j] \in Digits } }
            : p \in P }

\* a literal character started at any position of P
MatchChar(s, P, c) == { p + 1 : p \in { q \in P : q <= Len(s) /\ s[q] = c } }

\* (\d{1,3}\.)
MatchOctetDot(s, P) == MatchChar(s, MatchDigits(s, P), ".")

\* /^(\d{1,3}\.){3}\d{1,3}\/28$/.test(s)
cidrRegexTest(s) ==
    LET groups == MatchOctetDot(s, MatchOctetDot(s, MatchOctetDot(s, {1})))
        last   == MatchDigits(s, groups)
        mask   == MatchChar(s, MatchChar(s, MatchChar(s, last, "/"), "2"), "8")
    IN  (Len(s) + 1) \in mask

\* String.prototype.split with a one-character separator
RECURSIVE Split(_, _)
Split(s, sep) ==
    IF \A i \in 1..Len(s) : s[i] # sep
    THEN <<s>>
    ELSE LET i == CHOOSE k \in 1..Len(s) : s[k] = sep /\ \A j \in 1..(k - 1) : s[j] # sep
         IN  <<SubSeq(s, 1, i - 1)>> \o Split(SubSeq(s, i + 1, Len(s)), sep)

\* Number(s) for a string of decimal digits (what the regular expression lets
\* through); Number("") is 0
RECURSIVE Number(_)
Number(s) ==
    IF Len(s) = 0 THEN 0
    ELSE 10 * Number(SubSeq(s, 1, Len(s) - 1)) + DigitValue[s[Len(s)]]

\* const ip = cidr.split('/')[0]
IpOf(s) == Split(s, "/")[1]

\* const octets = ip.split('.').map(Number)
OctetsOf(s) ==
    LET parts == Split(IpOf(s), ".")
    IN  [i \in 1..Len(parts) |-> Number(parts[i])]

\* the four throw sites of validateMasterCidr
FormatError(s) ==
    [kind |-> "MalformedCidr", text |-> "masterCidr must be a /28 CIDR block", value |-> s]

OctetError(s) ==
    [kind |-> "MalformedCidr", text |-> "Invalid IP address in masterCidr", value |-> IpOf(s)]

PrivateError(s) ==
    [kind |-> "NotPrivateRange", text |-> "masterCidr must be in RFC 1918 private range",
     value |-> IpOf(s)]

AlignError(s) ==
    [kind |-> "MisalignedBlock", text |-> "masterCidr /28 block must be aligned",
     value |-> IpOf(s)]

isPrivate(octets) ==
    \/ octets[1] = 10
    \/ (octets[1] = 172 /\ octets[2] >= 16 /\ octets[2] <= 31)
    \/ (octets[1] = 192 /\ octets[2] = 168)

validateMasterCidr_Above16(s) ==
    LET octets == OctetsOf(s)
    IN  IF ~cidrRegexTest(s) THEN {FormatError(s)}
        ELSE IF \E i \in 1..Len(octets) : octets[i] < 0 \/ octets[i] > 255
        THEN {OctetError(s)}
        ELSE IF ~(\/ octets[1] = 10
                  \/ (octets[1] = 172 /\ octets[2] > 16 /\ octets[2] <= 31)
                  \/ (octets[1] = 192 /\ octets[2] = 168))
        THEN {PrivateError(s)}
        ELSE IF octets[4] % 16 # 0 THEN {AlignError(s)}
        ELSE {}

validateMasterCidr_AlignFirst(s) ==
    LET octets == OctetsOf(s)
    IN  IF ~cidrRegexTest(s) THEN {FormatError(s)}
        ELSE IF \E i \in 1..Len(octets) : octets[i] < 0 \/ octets[i] > 255
        THEN {OctetError(s)}
        ELSE IF octets[4] % 16 # 0 THEN {AlignError(s)}
        ELSE IF ~isPrivate(octets) THEN {PrivateError(s)}
        ELSE {}

validateMasterCidr(s) ==
    LET octets == OctetsOf(s)
    IN  IF ~cidrRegexTest(s) THEN {FormatError(s)}
        ELSE IF \E i \in 1..Len(octets) : octets[i] < 0 \/ octets[i] > 255
        THEN {OctetError(s)}
        ELSE IF ~isPrivate(octets) THEN {PrivateError(s)}
        ELSE IF octets[4] % 16 # 0 THEN {AlignError(s)}
        ELSE {}

(***************************************************************************)
(* Constructors.  Each returns what the caller observes: the Error thrown  *)
(* (no object: a constructor that throws yields nothing) or the object.    *)
(***************************************************************************)
\* opt ?? d
Default(opt, d) == IF opt = {} THEN d ELSE CHOOSE v \in opt : TRUE

Throw(errors) == [thrown |-> errors, value |-> {}]

Return(object) == [thrown |-> {}, value |-> {object}]

\* '172.16.0.0/28'
DefaultMasterCidr == <<"1", "7", "2", ".", "1", "6", ".", "0", ".", "0", "/", "2", "8">>

MinMaxError(minNodes, maxNodes) ==
    [kind |-> "MinExceedsMax", text |-> "cannot be greater than maxNodes",
     minNodes |-> minNodes, maxNodes |-> maxNodes]

ClusterFields_SpotOr(a) ==
    [projectId        |-> a.projectId,
     region           |-> a.region,
     env              |-> a.env,
     prefix           |-> a.prefix,
     zone             |-> Default(a.zone, a.region \o "-a"),
     machineType      |-> Default(a.machineType, "e2-medium"),
     nodeCount        |-> Default(a.nodeCount, 1),
     minNodes         |-> Default(a.minNodes, 1),
     maxNodes         |-> Default(a.maxNodes, 3),
     diskSize         |-> Default(a.diskSize, 50),
     spotInstances    |-> IF a.spotInstances = {FALSE} THEN TRUE
                          ELSE Default(a.spotInstances, TRUE),
     masterCidr       |-> Default(a.masterCidr, DefaultMasterCidr),
     podRangeName     |-> Default(a.podRangeName, "pod-ranges"),
     serviceRangeName |-> Default(a.serviceRangeName, "service-ranges")]

\* the object the ClusterConfig constructor has populated when it returns
ClusterFields(a) ==
    [projectId        |-> a.projectId,
     region           |-> a.region,
     env              |-> a.env,
     prefix           |-> a.prefix,
     zone             |-> Default(a.zone, a.region \o "-a"),
     machineType      |-> Default(a.machineType, "e2-medium"),
     nodeCount        |-> Default(a.nodeCount, 1),
     minNodes         |-> Default(a.minNodes, 1),
     maxNodes         |-> Default(a.maxNodes, 3),
     diskSize         |-> Default(a.diskSize, 50),
     spotInstances    |-> Default(a.spotInstances, TRUE),
     masterCidr       |-> Default(a.masterCidr, DefaultMasterCidr),
     podRangeName     |-> Default(a.podRangeName, "pod-ranges"),
     serviceRangeName |-> Default(a.serviceRangeName, "service-ranges")]

ClusterConfig_NoCidrCheck(a) ==
    LET machineType == Default(a.machineType, "e2-medium")
        maxNodes    == Default(a.maxNodes, 3)
        diskSize    == Default(a.diskSize, 50)
        nodeCount   == Default(a.nodeCount, 1)
        minNodes    == Default(a.minNodes, 1)
    IN  IF validateEnvironment(a.env) # {} THEN Throw(validateEnvironment(a.env))
        ELSE IF validateRegion(a.region) # {} THEN Throw(validateRegion(a.region))
        ELSE IF validateMachineType(machineType) # {} THEN Throw(validateMachineType(machineType))
        ELSE IF validateMaxNodes(maxNodes) # {} THEN Throw(validateMaxNodes(maxNodes))
        ELSE IF validateDiskSize(diskSize) # {} THEN Throw(validateDiskSize(diskSize))
        ELSE IF validateNodeCount(nodeCount) # {} THEN Throw(validateNodeCount(nodeCount))
        ELSE IF minNodes > maxNodes THEN Throw({MinMaxError(minNodes, maxNodes)})
        ELSE Return(ClusterFields(a))

ClusterConfig_MinNotBelowMax(a) ==
    LET machineType == Default(a.machineType, "e2-medium")
        maxNodes    == Default(a.maxNodes, 3)
        diskSize    == Default(a.diskSize, 50)
        nodeCount   == Default(a.nodeCount, 1)
        minNodes    == Default(a.minNodes, 1)
        masterCidr  == Default(a.masterCidr, DefaultMasterCidr)
    IN  IF validateEnvironment(a.env) # {} THEN Throw(validateEnvironment(a.env))
        ELSE IF validateRegion(a.region) # {} THEN Throw(validateRegion(a.region))
        ELSE IF validateMachineType(machineType) # {} THEN Throw(validateMachineType(machineType))
        ELSE IF validateMaxNodes(maxNodes) # {} THEN Throw(validateMaxNodes(maxNodes))
        ELSE IF validateDiskSize(diskSize) # {} THEN Throw(validateDiskSize(diskSize))
        ELSE IF validateNodeCount(nodeCount) # {} THEN Throw(validateNodeCount(nodeCount))
        ELSE IF minNodes >= maxNodes THEN Throw({MinMaxError(minNodes, maxNodes)})
        ELSE IF validateMasterCidr(masterCidr) # {} THEN Throw(validateMasterCidr(masterCidr))
        ELSE Return(ClusterFields(a))

ClusterConfig_MinMaxFirst(a) ==
    LET machineType == Default(a.machineType, "e2-medium")
        maxNodes    == Default(a.maxNodes, 3)
        diskSize    == Default(a.diskSize, 50)
        nodeCount   == Default(a.nodeCount, 1)
        minNodes    == Default(a.minNodes, 1)
        masterCidr  == Default(a.masterCidr, DefaultMasterCidr)
    IN  IF validateEnvironment(a.env) # {} THEN Throw(validateEnvironment(a.env))
        ELSE IF validateRegion(a.region) # {} THEN Throw(validateRegion(a.region))
        ELSE IF validateMachineType(machineType) # {} THEN Throw(validateMachineType(machineType))
        ELSE IF minNodes > maxNodes THEN Throw({MinMaxError(minNodes, maxNodes)})
        ELSE IF validateMaxNodes(maxNodes) # {} THEN Throw(validateMaxNodes(maxNodes))
        ELSE IF validateDiskSize(diskSize) # {} THEN Throw(validateDiskSize(diskSize))
        ELSE IF validateNodeCount(nodeCount) # {} THEN Throw(validateNodeCount(nodeCount))
        ELSE IF validateMasterCidr(masterCidr) # {} THEN Throw(validateMasterCidr(masterCidr))
        ELSE Return(ClusterFields(a))

\* new ClusterConfig(a)
ClusterConfig(a) ==
    LET machineType == Default(a.machineType, "e2-medium")
        maxNodes    == Default(a.maxNodes, 3)
        diskSize    == Default(a.diskSize, 50)
        nodeCount   == Default(a.nodeCount, 1)
        minNodes    == Default(a.minNodes, 1)
        masterCidr  == Default(a.masterCidr, DefaultMasterCidr)
    IN  IF validateEnvironment(a.env) # {} THEN Throw(validateEnvironment(a.env))
        ELSE IF validateRegion(a.region) # {} THEN Throw(validateRegion(a.region))
        ELSE IF validateMachineType(machineType) # {} THEN Throw(validateMachineType(machineType))
        ELSE IF validateMaxNodes(maxNodes) # {} THEN Throw(validateMaxNodes(maxNodes))
        ELSE IF validateDiskSize(diskSize) # {} THEN Throw(validateDiskSize(diskSize))
        ELSE IF validateNodeCount(nodeCount) # {} THEN Throw(validateNodeCount(nodeCount))
        ELSE IF minNodes > maxNodes THEN Throw({MinMaxError(minNodes, maxNodes)})
        ELSE IF validateMasterCidr(masterCidr) # {} THEN Throw(validateMasterCidr(masterCidr))
        ELSE Return(ClusterFields(a))

\* the object the NetworkConfig constructor has populated when it returns
NetworkFields(a) ==
    [projectId        |-> a.projectId,
     region           |-> a.region,
     env              |-> a.env,
     prefix           |-> a.prefix,
     cidr             |-> Default(a.cidr, "10.0.0.0/16"),
     podCidr          |-> Default(a.podCidr, "10.11.0.0/21"),
     serviceCidr      |-> Default(a.serviceCidr, "10.12.0.0/21"),
     podRangeName     |-> Default(a.podRangeName, "pod-ranges"),
     serviceRangeName |-> Default(a.serviceRangeName, "service-ranges")]

NetworkConfig_RegionFirst(a) ==
    IF validateRegion(a.region) # {} THEN Throw(validateRegion(a.region))
    ELSE IF validateEnvironment(a.env) # {} THEN Throw(validateEnvironment(a.env))
    ELSE Return(NetworkFields(a))

\* new NetworkConfig(a)
NetworkConfig(a) ==
    IF validateEnvironment(a.env) # {} THEN Throw(validateEnvironment(a.env))
    ELSE IF validateRegion(a.region) # {} THEN Throw(validateRegion(a.region))
    ELSE Return(NetworkFields(a))

(***************************************************************************)
(* Computed properties of the configuration objects.                       *)
(***************************************************************************)
clusterName_Region(c) == c.prefix \o "-" \o c.region \o "-cluster"

\* get clusterName(): `${prefix}-${env}-cluster`
clusterName(c) == c.prefix \o "-" \o c.env \o "-cluster"

\* get workloadPool(): `${projectId}.svc.id.goog`
workloadPool(c) == c.projectId \o ".svc.id.goog"

\* get effectiveZone()
effectiveZone(c) == c.zone

\* get vpcName(): `${prefix}-${env}-vpc`
vpcName(c) == c.prefix \o "-" \o c.env \o "-vpc"

\* get subnetName(): `${prefix}-${env}-subnet`
subnetName(c) == c.prefix \o "-" \o c.env \o "-subnet"

(***************************************************************************)
(* Platform profiles.  A profile object holds projectId, region, env and   *)
(* prefix and is tagged with its class.  An overrides object is a function *)
(* whose domain is the set of its own keys; a key may be present with the  *)
(* value undefined ({}).                                                   *)
(***************************************************************************)
Spread_BaseWins(base, overrides) ==
    [k \in DOMAIN base \cup DOMAIN overrides |->
        IF k \in DOMAIN base THEN base[k] ELSE overrides[k]]

\* { ...base, ...overrides }: every own key of overrides replaces that of base
Spread(base, overrides) ==
    [k \in DOMAIN base \cup DOMAIN overrides |->
        IF k \in DOMAIN overrides THEN overrides[k] ELSE base[k]]

\* the optional keys of ClusterConfigArgs
ClusterOptionalKeys ==
    {"zone", "machineType", "nodeCount", "minNodes", "maxNodes", "diskSize",
     "spotInstances", "masterCidr", "podRangeName", "serviceRangeName"}

\* the optional keys of NetworkConfigArgs
NetworkOptionalKeys == {"cidr", "podCidr", "serviceCidr", "podRangeName", "serviceRangeName"}

\* args.k of an object literal: undefined for a key the literal does not have
ReadArgs(literal, optional) ==
    [k \in DOMAIN literal \cup optional |-> IF k \in DOMAIN literal THEN literal[k] ELSE {}]

\* get commonLabels(): { environment: env, 'managed-by': 'pulumi', project: projectId }
commonLabels(profile) ==
    [k \in {"environment", "managed-by", "project"} |->
        IF k = "environment" THEN profile.env
        ELSE IF k = "managed-by" THEN "pulumi"
        ELSE profile.projectId]

\* PlatformProfile.getNetworkConfig(overrides)
getNetworkConfig(profile, overrides) ==
    NetworkConfig(ReadArgs(Spread([projectId |-> profile.projectId,
                                   region    |-> profile.region,
                                   env       |-> profile.env,
                                   prefix    |-> profile.prefix], overrides),
                           NetworkOptionalKeys))

\* DevProfile.getClusterConfig(overrides)
DevProfile_getClusterConfig(profile, overrides) ==
    ClusterConfig(ReadArgs(Spread([projectId     |-> profile.projectId,
                                   region        |-> profile.region,
                                   env           |-> profile.env,
                                   prefix        |-> profile.prefix,
                                   machineType   |-> {"e2-medium"},
                                   nodeCount     |-> {1},
                                   minNodes      |-> {1},
                                   maxNodes      |-> {3},
                                   spotInstances |-> {TRUE},
                                   diskSize      |-> {50}], overrides),
                           ClusterOptionalKeys))

StagingProfile_getClusterConfig_DevDisk(profile, overrides) ==
    ClusterConfig(ReadArgs(Spread([projectId     |-> profile.projectId,
                                   region        |-> profile.region,
                                   env           |-> profile.env,
                                   prefix        |-> profile.prefix,
                                   machineType   |-> {"n2-standard-2"},
                                   nodeCount     |-> {2},
                                   minNodes      |-> {2},
                                   maxNodes      |-> {5},
                                   spotInstances |-> {TRUE},
                                   diskSize      |-> {50}], overrides),
                           ClusterOptionalKeys))

\* StagingProfile.getClusterConfig(overrides)
StagingProfile_getClusterConfig(profile, overrides) ==
    ClusterConfig(ReadArgs(Spread([projectId     |-> profile.projectId,
                                   region        |-> profile.region,
                                   env           |-> profile.env,
                                   prefix        |-> profile.prefix,
                                   machineType   |-> {"n2-standard-2"},
                                   nodeCount     |-> {2},
                                   minNodes      |-> {2},
                                   maxNodes      |-> {5},
                                   spotInstances |-> {TRUE},
                                   diskSize      |-> {75}], overrides),
                           ClusterOptionalKeys))

ProdProfile_getClusterConfig_Unchecked(profile, overrides) ==
    Return(ClusterFields(ReadArgs(Spread([projectId     |-> profile.projectId,
                                          region        |-> profile.region,
                                          env           |-> profile.env,
                                          prefix        |-> profile.prefix,
                                          machineType   |-> {"n2-standard-4"},
                                          nodeCount     |-> {3},
                                          minNodes      |-> {3},
                                          maxNodes      |-> {10},
                                          spotInstances |-> {FALSE},
                                          diskSize      |-> {100}], overrides),
                                  ClusterOptionalKeys)))

\* ProdProfile.getClusterConfig(overrides)
ProdProfile_getClusterConfig(profile, overrides) ==
    ClusterConfig(ReadArgs(Spread([projectId     |-> profile.projectId,
                                   region        |-> profile.region,
                                   env           |-> profile.env,
                                   prefix        |-> profile.prefix,
                                   machineType   |-> {"n2-standard-4"},
                                   nodeCount     |-> {3},
                                   minNodes      |-> {3},
                                   maxNodes      |-> {10},
                                   spotInstances |-> {FALSE},
                                   diskSize      |-> {100}], overrides),
                           ClusterOptionalKeys))

\* profile.getClusterConfig(overrides), dispatched on the class of the profile
getClusterConfig(profile, overrides) ==
    IF profile.class = "ProdProfile" THEN ProdProfile_getClusterConfig(profile, overrides)
    ELSE IF profile.class = "StagingProfile"
    THEN StagingProfile_getClusterConfig(profile, overrides)
    ELSE DevProfile_getClusterConfig(profile, overrides)

(***************************************************************************)
(* Components.  Constructing a component registers resources with the      *)
(* engine one after the other: the component itself (its super call), then *)
(* its children.  A component constructor yields the Error thrown or the   *)
(* object, and in both cases the resources registered up to that point.    *)
(* A secret id, which the code trims, is a sequence of one-character       *)
(* strings.                                                                *)
(***************************************************************************)
Fail(errors, resources) == [thrown |-> errors, value |-> {}, declared |-> resources]

Built(object, resources) == [thrown |-> {}, value |-> {object}, declared |-> resources]

\* new <type>(name, props, { parent, dependsOn })
Resource(type, name, parent, dependsOn, props) ==
    [type |-> type, name |-> name, parent |-> parent, dependsOn |-> dependsOn,
     props |-> props]

\* new StandardVPC(name, { config }, { parent })
StandardVPC(name, config, parent) ==
    LET component == Resource("x-infra-kit:networking:StandardVPC", name, parent, {}, <<>>)
        network ==
            Resource("gcp:compute:Network", name \o "-vpc", name, {},
                     [name |-> vpcName(config)])
        subnet ==
            Resource("gcp:compute:Subnetwork", name \o "-subnet", name, {},
                     [name         |-> subnetName(config),
                      region       |-> config.region,
                      network      |-> network.name,
                      ipCidrRange  |-> config.cidr,
                      podRange     |-> [rangeName   |-> config.podRangeName,
                                        ipCidrRange |-> config.podCidr],
                      serviceRange |-> [rangeName   |-> config.serviceRangeName,
                                        ipCidrRange |-> config.serviceCidr]])
        router ==
            Resource("gcp:compute:Router", name \o "-router", name, {},
                     [name    |-> vpcName(config) \o "-router",
                      region  |-> config.region,
                      network |-> network.name])
        nat ==
            Resource("gcp:compute:RouterNat", name \o "-nat", name, {},
                     [name   |-> vpcName(config) \o "-nat",
                      router |-> router.name,
                      region |-> config.region])
    IN  Built([class |-> "StandardVPC", network |-> network.name, subnet |-> subnet.name],
              <<component, network, subnet, router, nat>>)

StandardCluster_PoolFirst(name, config, networkId, subnetId, parent) ==
    LET component == Resource("x-infra-kit:compute:StandardCluster", name, parent, {}, <<>>)
        cluster ==
            Resource("gcp:container:Cluster", name \o "-cluster", name, {},
                     [name                       |-> clusterName(config),
                      location                   |-> effectiveZone(config),
                      network                    |-> networkId,
                      subnetwork                 |-> subnetId,
                      deletionProtection         |-> config.env = "prod",
                      clusterSecondaryRangeName  |-> config.podRangeName,
                      servicesSecondaryRangeName |-> config.serviceRangeName,
                      masterIpv4CidrBlock        |-> config.masterCidr,
                      workloadPool               |-> workloadPool(config)])
        nodePool ==
            Resource("gcp:container:NodePool", name \o "-pool", name, {cluster.name},
                     [name             |-> clusterName(config) \o "-pool",
                      location         |-> effectiveZone(config),
                      cluster          |-> cluster.name,
                      initialNodeCount |-> config.nodeCount,
                      minNodeCount     |-> config.minNodes,
                      maxNodeCount     |-> config.maxNodes,
                      machineType      |-> config.machineType,
                      diskSizeGb       |-> config.diskSize,
                      spot             |-> config.spotInstances])
    IN  Built([class |-> "StandardCluster", cluster |-> cluster.name,
               nodePool |-> nodePool.name],
              <<component, nodePool, cluster>>)

\* new StandardCluster(name, { config, networkId, subnetId }, { parent })
StandardCluster(name, config, networkId, subnetId, parent) ==
    LET component == Resource("x-infra-kit:compute:StandardCluster", name, parent, {}, <<>>)
        cluster ==
            Resource("gcp:container:Cluster", name \o "-cluster", name, {},
                     [name                       |-> clusterName(config),
                      location                   |-> effectiveZone(config),
                      network                    |-> networkId,
                      subnetwork                 |-> subnetId,
                      deletionProtection         |-> config.env = "prod",
                      clusterSecondaryRangeName  |-> config.podRangeName,
                      servicesSecondaryRangeName |-> config.serviceRangeName,
                      masterIpv4CidrBlock        |-> config.masterCidr,
                      workloadPool               |-> workloadPool(config)])
        nodePool ==
            Resource("gcp:container:NodePool", name \o "-pool", name, {cluster.name},
                     [name             |-> clusterName(config) \o "-pool",
                      location         |-> effectiveZone(config),
                      cluster          |-> cluster.name,
                      initialNodeCount |-> config.nodeCount,
                      minNodeCount     |-> config.minNodes,
                      maxNodeCount     |-> config.maxNodes,
                      machineType      |-> config.machineType,
                      diskSizeGb       |-> config.diskSize,
                      spot             |-> config.spotInstances])
    IN  Built([class |-> "StandardCluster", cluster |-> cluster.name,
               nodePool |-> nodePool.name],
              <<component, cluster, nodePool>>)

DigitChars == <<"0", "1", "2", "3", "4", "5", "6", "7", "8", "9">>

\* the decimal numeral of a natural number, as the caller would write it
\* and as a template literal prints it
RECURSIVE Numeral(_)
Numeral(n) ==
    IF n < 10 THEN <<DigitChars[n + 1]>>
    ELSE Numeral(n \div 10) \o <<DigitChars[(n % 10) + 1]>>

\* the characters String.prototype.trim removes (those the inputs use)
WhiteSpace == {" ", "\t", "\n"}

RECURSIVE TrimStart(_)
TrimStart(s) == IF s # <<>> /\ s[1] \in WhiteSpace THEN TrimStart(Tail(s)) ELSE s

RECURSIVE TrimEnd(_)
TrimEnd(s) ==
    IF s # <<>> /\ s[Len(s)] \in WhiteSpace THEN TrimEnd(SubSeq(s, 1, Len(s) - 1)) ELSE s

\* secretId.trim()
Trim(s) == TrimEnd(TrimStart(s))

RECURSIVE Text(_)
\* a secret id interpolated into a template literal
Text(s) == IF s = <<>> THEN "" ELSE s[1] \o Text(Tail(s))

\* new Map()
EmptyMap == [keys |-> <<>>, at |-> <<>>]

\* map.set(key, value): a new key goes last, a known key keeps its place
MapSet(map, key, value) ==
    [keys |-> IF \E i \in 1..Len(map.keys) : map.keys[i] = key THEN map.keys
              ELSE Append(map.keys, key),
     at   |-> (key :> value) @@ map.at]

EmptySecretListError == [kind |-> "EmptySecretList", text |-> "secretIds cannot be empty"]

BlankSecretIdError ==
    [kind |-> "BlankSecretId", text |-> "secretId cannot be empty or whitespace"]

IsBlank_EmptyOnly(secretId) == secretId = <<>>

\* !secretId || !secretId.trim()
IsBlank(secretId) == secretId = <<>> \/ Trim(secretId) = <<>>

RECURSIVE DeclareSecrets(_, _, _, _, _)
\* the for loop of StandardSecrets from entry i on: the Error it throws, the
\* secrets it has registered and the map it has filled
DeclareSecrets(name, secretIds, i, resources, map) ==
    IF i > Len(secretIds) THEN [thrown |-> {}, declared |-> resources, secrets |-> map]
    ELSE IF IsBlank(secretIds[i])
    THEN [thrown |-> {BlankSecretIdError}, declared |-> resources, secrets |-> map]
    ELSE LET secret == Resource("gcp:secretmanager:Secret",
                                name \o "-" \o Text(secretIds[i]), name, {},
                                [secretId |-> secretIds[i]])
         IN  DeclareSecrets(name, secretIds, i + 1, Append(resources, secret),
                            MapSet(map, secretIds[i], secret.name))

\* new StandardSecrets(name, { secretIds }, { parent })
StandardSecrets(name, secretIds, parent) ==
    LET component == Resource("x-infra-kit:security:StandardSecrets", name, parent, {}, <<>>)
        loop      == DeclareSecrets(name, secretIds, 1, <<component>>, EmptyMap)
    IN  IF Len(secretIds) = 0 THEN Fail({EmptySecretListError}, <<component>>)
        ELSE IF loop.thrown # {} THEN Fail(loop.thrown, loop.declared)
        ELSE Built([class |-> "StandardSecrets", secretIds |-> secretIds,
                    secrets |-> loop.secrets],
                   loop.declared)

getSecret_Trimmed(group, secretId) ==
    IF Trim(secretId) \in DOMAIN group.secrets.at
    THEN Return(group.secrets.at[Trim(secretId)])
    ELSE Throw({[kind      |-> "SecretNotFound",
                 text      |-> "not found. Available:",
                 secretId  |-> Text(secretId),
                 available |-> Join([i \in 1..Len(group.secrets.keys) |->
                                        Text(group.secrets.keys[i])], ", ")]})

\* StandardSecrets.getSecret(secretId)
getSecret(group, secretId) ==
    IF secretId \in DOMAIN group.secrets.at
    THEN Return(group.secrets.at[secretId])
    ELSE Throw({[kind      |-> "SecretNotFound",
                 text      |-> "not found. Available:",
                 secretId  |-> Text(secretId),
                 available |-> Join([i \in 1..Len(group.secrets.keys) |->
                                        Text(group.secrets.keys[i])], ", ")]})

IdentityError(kind, text) == [kind |-> kind, text |-> text]

RECURSIVE RoleBindings(_, _, _, _)
\* the role bindings of roles[i..], <name>-role-<index from 0>
RoleBindings(name, projectId, roles, i) ==
    IF i > Len(roles) THEN <<>>
    ELSE <<Resource("gcp:projects:IAMMember",
                    name \o "-role-" \o Text(Numeral(i - 1)), name, {},
                    [project |-> projectId, role |-> roles[i], member |-> name \o "-sa"])>>
         \o RoleBindings(name, projectId, roles, i + 1)

StandardIdentity_LengthExclusive(name, a, parent) ==
    LET component == Resource("x-infra-kit:security:StandardIdentity", name, parent, {}, <<>>)
        roles     == Default(a.roles, <<>>)
        gsa       == Resource("gcp:serviceaccount:Account", name \o "-sa", name, {},
                              [accountId   |-> a.saId,
                               displayName |-> "Workload Identity SA for " \o a.saId])
        binding   == Resource("gcp:serviceaccount:IAMBinding", name \o "-wi-binding", name, {},
                              [serviceAccountId |-> gsa.name,
                               role             |-> "roles/iam.workloadIdentityUser",
                               member           |-> "serviceAccount:" \o a.projectId
                                                    \o ".svc.id.goog[" \o a.k8sNamespace
                                                    \o "/" \o a.k8sSaName \o "]"])
    IN  IF a.projectId = ""
        THEN Fail({IdentityError("BlankProjectId", "projectId is required")}, <<component>>)
        ELSE IF a.saId = "" \/ Len(a.saId) <= 6 \/ Len(a.saId) >= 30
        THEN Fail({IdentityError("InvalidServiceAccountIdLength",
                                 "saId must be 6-30 characters")}, <<component>>)
        ELSE IF a.k8sNamespace = ""
        THEN Fail({IdentityError("BlankNamespace", "k8sNamespace is required")}, <<component>>)
        ELSE IF a.k8sSaName = ""
        THEN Fail({IdentityError("BlankServiceAccountName", "k8sSaName is required")},
                  <<component>>)
        ELSE Built([class |-> "StandardIdentity", gsa |-> gsa.name,
                    workloadIdentityBinding |-> binding.name,
                    email |-> [output |-> "email", of |-> gsa.name]],
                   <<component, gsa>> \o RoleBindings(name, a.projectId, roles, 1)
                   \o <<binding>>)

\* new StandardIdentity(name, { projectId, saId, k8sNamespace, k8sSaName, roles }, { parent })
StandardIdentity(name, a, parent) ==
    LET component == Resource("x-infra-kit:security:StandardIdentity", name, parent, {}, <<>>)
        roles     == Default(a.roles, <<>>)
        gsa       == Resource("gcp:serviceaccount:Account", name \o "-sa", name, {},
                              [accountId   |-> a.saId,
                               displayName |-> "Workload Identity SA for " \o a.saId])
        binding   == Resource("gcp:serviceaccount:IAMBinding", name \o "-wi-binding", name, {},
                              [serviceAccountId |-> gsa.name,
                               role             |-> "roles/iam.workloadIdentityUser",
                               member           |-> "serviceAccount:" \o a.projectId
                                                    \o ".svc.id.goog[" \o a.k8sNamespace
                                                    \o "/" \o a.k8sSaName \o "]"])
    IN  IF a.projectId = ""
        THEN Fail({IdentityError("BlankProjectId", "projectId is required")}, <<component>>)
        ELSE IF a.saId = "" \/ Len(a.saId) < 6 \/ Len(a.saId) > 30
        THEN Fail({IdentityError("InvalidServiceAccountIdLength",
                                 "saId must be 6-30 characters")}, <<component>>)
        ELSE IF a.k8sNamespace = ""
        THEN Fail({IdentityError("BlankNamespace", "k8sNamespace is required")}, <<component>>)
        ELSE IF a.k8sSaName = ""
        THEN Fail({IdentityError("BlankServiceAccountName", "k8sSaName is required")},
                  <<component>>)
        ELSE Built([class |-> "StandardIdentity", gsa |-> gsa.name,
                    workloadIdentityBinding |-> binding.name,
                    email |-> [output |-> "email", of |-> gsa.name]],
                   <<component, gsa>> \o RoleBindings(name, a.projectId, roles, 1)
                   \o <<binding>>)

(***************************************************************************)
(* The composite.                                                          *)
(***************************************************************************)
SelectProfile_StagingAsProd(a) ==
    [class     |-> IF a.env = "prod" \/ a.env = "staging" THEN "ProdProfile" ELSE "DevProfile",
     projectId |-> a.projectId, region |-> a.region, env |-> a.env, prefix |-> a.prefix]

\* 1. Select profile based on environment
SelectProfile(a) ==
    [class     |-> IF a.env = "prod" THEN "ProdProfile"
                   ELSE IF a.env = "staging" THEN "StagingProfile"
                   ELSE "DevProfile",
     projectId |-> a.projectId, region |-> a.region, env |-> a.env, prefix |-> a.prefix]

SecretsWanted_AnyList(a) == a.secretIds # {}

\* secretIds && secretIds.length > 0
SecretsWanted(a) == a.secretIds # {} /\ Len(Default(a.secretIds, <<>>)) > 0

IdentityIncomplete_SaIdOnly(w) == w.saId = ""

\* !saId || !k8sNamespace || !k8sSaName
IdentityIncomplete(w) == w.saId = "" \/ w.k8sNamespace = "" \/ w.k8sSaName = ""

IncompleteIdentityError ==
    [kind |-> "IncompleteIdentityConfig",
     text |-> "workloadIdentity must contain 'saId', 'k8sNamespace', and 'k8sSaName'"]

\* nothing constructed: the optional step was skipped
Skipped == [thrown |-> {}, value |-> {}, declared |-> <<>>]

\* the StandardPlatform object when its constructor returns
PlatformFields(a, vpc, cluster, secrets, identity) ==
    [class     |-> "StandardPlatform",
     projectId |-> a.projectId, region |-> a.region, env |-> a.env, prefix |-> a.prefix,
     vpc       |-> vpc,
     cluster   |-> cluster,
     _secrets  |-> secrets,
     _identity |-> identity]

\* new StandardPlatform(name, a)
StandardPlatform(name, a) ==
    LET component == Resource("x-infra-kit:composites:StandardPlatform", name, "", {}, <<>>)
        profile   == SelectProfile(a)
        network   == getNetworkConfig(profile, <<>>)
    IN  IF network.thrown # {} THEN Fail(network.thrown, <<component>>)
        ELSE
        LET networkConfig == CHOOSE c \in network.value : TRUE
            vpc           == StandardVPC(name \o "-networking", networkConfig, name)
            vpcObject     == CHOOSE v \in vpc.value : TRUE
            merged        ==
                getClusterConfig(profile,
                    Spread([podRangeName     |-> {networkConfig.podRangeName},
                            serviceRangeName |-> {networkConfig.serviceRangeName}],
                           Default(a.clusterOverrides, <<>>)))
        IN  IF merged.thrown # {} THEN Fail(merged.thrown, <<component>> \o vpc.declared)
            ELSE
            LET clusterConfig == CHOOSE c \in merged.value : TRUE
                cluster       == StandardCluster(name \o "-compute", clusterConfig,
                                                 vpcObject.network, vpcObject.subnet, name)
                secrets       == IF SecretsWanted(a)
                                 THEN StandardSecrets(name \o "-secrets",
                                                      Default(a.secretIds, <<>>), name)
                                 ELSE Skipped
                sofar         == <<component>> \o vpc.declared \o cluster.declared
                                 \o secrets.declared
            IN  IF secrets.thrown # {} THEN Fail(secrets.thrown, sofar)
                ELSE IF a.workloadIdentity = {}
                THEN Built(PlatformFields(a, vpcObject, CHOOSE c \in cluster.value : TRUE,
                                          secrets.value, {}), sofar)
                ELSE
                LET w        == CHOOSE v \in a.workloadIdentity : TRUE
                    identity == StandardIdentity(name \o "-identity",
                                                 [projectId    |-> a.projectId,
                                                  saId         |-> w.saId,
                                                  k8sNamespace |-> w.k8sNamespace,
                                                  k8sSaName    |-> w.k8sSaName,
                                                  roles        |-> {Default(w.roles, <<>>)}],
                                                 name)
                IN  IF IdentityIncomplete(w) THEN Fail({IncompleteIdentityError}, sofar)
                    ELSE IF identity.thrown # {}
                    THEN Fail(identity.thrown, sofar \o identity.declared)
                    ELSE Built(PlatformFields(a, vpcObject, CHOOSE c \in cluster.value : TRUE,
                                              secrets.value, identity.value),
                               sofar \o identity.declared)

NotConfiguredError(text) == [kind |-> "NotConfigured", text |-> text]

\* get hasSecrets()
hasSecrets(platform) == platform._secrets # {}

hasIdentity_FromSecrets(platform) == platform._secrets # {}

\* get hasIdentity()
hasIdentity(platform) == platform._identity # {}

\* get secrets()
secrets(platform) ==
    IF platform._secrets = {}
    THEN Throw({NotConfiguredError("Secrets not configured")})
    ELSE Return(CHOOSE v \in platform._secrets : TRUE)

\* get identity()
identity(platform) ==
    IF platform._identity = {}
    THEN Throw({NotConfiguredError("Workload Identity not configured")})
    ELSE Return(CHOOSE v \in platform._identity : TRUE)

\* get identityEmail(): this.identity.email
identityEmail(platform) ==
    IF identity(platform).thrown # {} THEN Throw(identity(platform).thrown)
    ELSE Return((CHOOSE v \in identity(platform).value : TRUE).email)

(***************************************************************************)
(* The inputs the calls are made with.                                     *)
(***************************************************************************)
\* strings handed to the allow-list validators: every listed value, near
\* misses of them and values of the wrong list
StrInputs ==
    { Environments[i] : i \in 1..Len(Environments) } \cup
    { Regions[i] : i \in 1..Len(Regions) } \cup
    { MachineTypes[i] : i \in 1..Len(MachineTypes) } \cup
    {"", "production", "test", "local", "Dev", "PROD", "prod ",
     "asia-east1", "us-west2", "random-region", "europe-west2", "us-east1-b",
     "n1-standard-1", "custom-8-16384", "e2-standard-8", "n2-highmem-8", "e2-Medium"}

NumInputs == (-MaxInt)..MaxInt

\* the text of each dot-separated group of a candidate CIDR
Group1 == { Numeral(n) : n \in {8, 10, 11, 172, 192, 256, 999, 1000} } \cup
          { <<"0", "1", "0">>, <<>>, <<"1", "a">> }
Group2 == { Numeral(n) : n \in {0, 15, 16, 31, 32, 168, 256} }
Group3 == { Numeral(n) : n \in {0, 255, 300} }
Group4 == { Numeral(n) : n \in {0, 1, 15, 16, 17, 48, 240, 255, 256, 272} }
Masks  == { <<"/", "2", "8">>, <<"/", "2", "4">>, <<"/", "2", "8", "8">>, <<>> }

Dotted == { a \o <<".">> \o b \o <<".">> \o c \o <<".">> \o d :
              a \in Group1, b \in Group2, c \in Group3, d \in Group4 }

\* shapes that are no dotted quad followed by a mask
OddCidrs ==
    { <<"i", "n", "v", "a", "l", "i", "d">>,
      <<>>,
      <<"1", "7", "2", ".", "1", "6", ".", "0", "/", "2", "8">>,
      <<"1", "0", ".", "0", ".", "0", ".", "0", ".", "0", "/", "2", "8">>,
      <<" ", "1", "0", ".", "0", ".", "0", ".", "0", "/", "2", "8">>,
      <<"1", "0", ".", "0", ".", "0", ".", "0", "/", "2", "8", " ">>,
      <<"1", "0", ".", "0", ".", "0", ".", "0", "/", "2", "8", "/", "2", "8">>,
      <<"1", "0", ".", "0", ".", "0", ".", "-", "1", "6", "/", "2", "8">>,
      <<"1", "0", "/", "0", ".", "0", ".", "0", ".", "2", "8">>,
      <<"1", "0", ".", "0", ".", "0", ".", "0", "2", "8">> }

CidrInputs == { q \o m : q \in Dotted, m \in Masks } \cup OddCidrs

\* master CIDRs handed to the ClusterConfig constructor
MasterCidrArgs ==
    { {},
      {<<"1", "0", ".", "1", ".", "0", ".", "1", "6", "/", "2", "8">>},
      {<<"1", "7", "2", ".", "1", "6", ".", "0", ".", "0", "/", "2", "4">>},
      {<<"8", ".", "8", ".", "8", ".", "0", "/", "2", "8">>},
      {<<"1", "7", "2", ".", "1", "6", ".", "0", ".", "1", "/", "2", "8">>} }

EnvArgs == {"dev", "staging", "prod", "production"}

RegionArgs == {"europe-west1", "asia-east1"}

\* ClusterConfigArgs
ClusterArgs ==
    [projectId        : {"my-project"},
     region           : RegionArgs,
     env              : EnvArgs,
     prefix           : {"myapp"},
     zone             : {{}},
     machineType      : {{}, {"n2-standard-4"}, {"n1-standard-1"}},
     nodeCount        : {{}, {0}, {20}, {21}},
     minNodes         : {{}, {-1}, {0}, {3}, {4}, {50}},
     maxNodes         : {{}, {0}, {1}, {50}, {51}},
     diskSize         : {{}, {29}, {30}, {201}},
     spotInstances    : {{}},
     masterCidr       : MasterCidrArgs,
     podRangeName     : {{}},
     serviceRangeName : {{}}]

\* ClusterConfigArgs that pass validation and differ in the fields the
\* constructor only stores
StoredClusterArgs ==
    [projectId        : {"my-project", "other-project"},
     region           : {"europe-west1", "us-east1"},
     env              : {"dev"},
     prefix           : {"myapp", "shop"},
     zone             : {{}, {"europe-west1-b"}, {"us-east1-a"}},
     machineType      : {{}},
     nodeCount        : {{}},
     minNodes         : {{}},
     maxNodes         : {{}},
     diskSize         : {{}},
     spotInstances    : {{}, {TRUE}, {FALSE}},
     masterCidr       : {{}, {<<"1", "0", ".", "0", ".", "0", ".", "0", "/", "2", "8">>}},
     podRangeName     : {{}, {""}},
     serviceRangeName : {{}, {"services"}}]

\* NetworkConfigArgs
NetworkArgs ==
    [projectId        : {"my-project", "other-project"},
     region           : RegionArgs \cup {"europe-west3", "us-east1", "us-west2"},
     env              : EnvArgs \cup {"test", ""},
     prefix           : {"myapp", "shop"},
     cidr             : {{}, {"10.1.0.0/16"}, {"not-a-cidr"}},
     podCidr          : {{}, {"10.21.0.0/21"}},
     serviceCidr      : {{}, {"10.22.0.0/21"}},
     podRangeName     : {{}, {"pods"}},
     serviceRangeName : {{}, {""}}]

\* new DevProfile / StagingProfile / ProdProfile (projectId, region, env, prefix)
Profiles ==
    [class     : {"DevProfile", "StagingProfile", "ProdProfile"},
     projectId : {"my-project"},
     region    : RegionArgs,
     env       : {"staging", "qa"},
     prefix    : {"myapp"}]

\* one key of an overrides object: left out, present and undefined, or
\* present with one of the values
Key(values) ==
    {[present |-> FALSE, value |-> {}], [present |-> TRUE, value |-> {}]} \cup
    {[present |-> TRUE, value |-> {v}] : v \in values}

\* the overrides object with the chosen keys
OverridesOf(choice) ==
    [k \in {j \in DOMAIN choice : choice[j].present} |-> choice[k].value]

\* Partial<ClusterConfigArgs> handed to getClusterConfig
ClusterOverrides ==
    { OverridesOf(choice) : choice \in
        [machineType   : Key({"n1-standard-1"}),
         nodeCount     : Key({}),
         minNodes      : Key({1, 4, 11}),
         maxNodes      : Key({0, 1, 2, 20, 51}),
         spotInstances : Key({FALSE}),
         diskSize      : Key({200})] }

\* Partial<NetworkConfigArgs> handed to getNetworkConfig
NetworkOverrides ==
    { OverridesOf(choice) : choice \in
        [cidr             : Key({"10.1.0.0/16"}),
         podRangeName     : Key({"pods"}),
         serviceRangeName : Key({"services"})] }

\* the name every component is constructed with
ComponentName == "test"

\* secret ids: plain, empty, whitespace only, and with whitespace at one end
SecretIds ==
    {<<"d", "b">>, <<"k">>, <<>>, <<" ">>, <<" ", "\t">>, <<" ", "k">>, <<"k", " ">>}

\* StandardSecretsArgs
SecretsArgs == [secretIds : UNION {[1..n -> SecretIds] : n \in 0..MaxSecretIds}]

Roles == {{}, {<<"roles/storage.objectViewer">>},
          {<<"roles/storage.objectViewer", "roles/pubsub.publisher">>}}

\* StandardIdentityArgs: saId of 0, 5, 6, 9, 30 and 31 characters and of 6 spaces
IdentityArgs ==
    [projectId    : {"my-project", ""},
     saId         : {"", "short", "my-app", "my-app-sa", "a23456789012345678901234567890",
                     "a234567890123456789012345678901", "      "},
     k8sNamespace : {"default", "", " "},
     k8sSaName    : {"app", ""},
     roles        : Roles]

\* WorkloadIdentityConfig
WorkloadIdentities ==
    [saId         : {"my-app-sa", "", "short"},
     k8sNamespace : {"default", "", " "},
     k8sSaName    : {"app", ""},
     roles        : {{<<"roles/storage.objectViewer">>}}] \cup
    {[saId |-> "my-app-sa", k8sNamespace |-> "default", k8sSaName |-> "app", roles |-> {}]}

\* StandardPlatformArgs
PlatformArgs ==
    [projectId        : {"my-project", ""},
     region           : RegionArgs,
     env              : {"dev", "staging", "prod", "qa"},
     prefix           : {"myapp"},
     secretIds        : {{}, {<<>>}, {<<<<"d", "b">>>>}, {<<<<"d", "b">>, <<" ">>>>}},
     workloadIdentity : {{}} \cup {{w} : w \in WorkloadIdentities},
     clusterOverrides : {{},
                         {[machineType |-> {"n2-standard-8"}]},
                         {[maxNodes |-> {0}]},
                         {[maxNodes |-> {}]},
                         {[podRangeName |-> {"custom-pods"}]}}]

\* ids asked of getSecret: every id a list may hold and one no list holds
LookupIds == SecretIds \cup {<<"x">>}

NoArgs == [projectId |-> "", region |-> "", env |-> "", prefix |-> ""]

\* a function call has no receiver
NoSelf == [class |-> "none"]

\* nothing has been read from the returned object yet
NoRead == [name |-> "none"]

(***************************************************************************)
(* The state machine.                                                      *)
(***************************************************************************)
Init ==
    /\ ALLOWED_ENVIRONMENTS = Environments
    /\ ALLOWED_REGIONS = Regions
    /\ ALLOWED_MACHINE_TYPES = MachineTypes
    /\ CONSTRAINTS = NumericConstraints
    /\ pc = "call"
    /\ thrown = {}
    /\ returned = {}
    /\ declared = <<>>
    /\ got = NoRead
    /\ held = <<>>
    /\ \/ /\ op \in {"validateEnvironment", "validateRegion", "validateMachineType"}
          /\ str \in StrInputs
          /\ num = 0 /\ cidr = <<>> /\ args = NoArgs /\ self = NoSelf
       \/ /\ op \in {"validateMaxNodes", "validateDiskSize", "validateNodeCount"}
          /\ num \in NumInputs
          /\ str = "" /\ cidr = <<>> /\ args = NoArgs /\ self = NoSelf
       \/ /\ op = "validateMasterCidr"
          /\ cidr \in CidrInputs
          /\ str = "" /\ num = 0 /\ args = NoArgs /\ self = NoSelf
       \/ /\ op = "ClusterConfig"
          /\ args \in ClusterArgs \cup StoredClusterArgs
          /\ str = "" /\ num = 0 /\ cidr = <<>> /\ self = NoSelf
       \/ /\ op = "NetworkConfig"
          /\ args \in NetworkArgs
          /\ str = "" /\ num = 0 /\ cidr = <<>> /\ self = NoSelf
       \/ /\ op = "getClusterConfig"
          /\ self \in Profiles
          /\ args \in ClusterOverrides
          /\ str = "" /\ num = 0 /\ cidr = <<>>
       \/ /\ op = "getNetworkConfig"
          /\ self \in Profiles
          /\ args \in NetworkOverrides
          /\ str = "" /\ num = 0 /\ cidr = <<>>
       \/ /\ op = "StandardSecrets"
          /\ args \in SecretsArgs
          /\ str = "" /\ num = 0 /\ cidr = <<>> /\ self = NoSelf
       \/ /\ op = "StandardIdentity"
          /\ args \in IdentityArgs
          /\ str = "" /\ num = 0 /\ cidr = <<>> /\ self = NoSelf
       \/ /\ op = "StandardPlatform"
          /\ args \in PlatformArgs
          /\ str = "" /\ num = 0 /\ cidr = <<>> /\ self = NoSelf

\* A validator call throws or returns undefined; a constructor call throws or
\* returns the object.

\* validateEnvironment(str)
CallValidateEnvironment ==
    /\ pc = "call"
    /\ op = "validateEnvironment"
    /\ thrown' = validateEnvironment(str)
    /\ returned' = {}
    /\ pc' = "done"
    /\ UNCHANGED <<tables, inputs, declared, got, held>>

\* validateRegion(str)
CallValidateRegion ==
    /\ pc = "call"
    /\ op = "validateRegion"
    /\ thrown' = validateRegion(str)
    /\ returned' = {}
    /\ pc' = "done"
    /\ UNCHANGED <<tables, inputs, declared, got, held>>

\* validateMachineType(str)
CallValidateMachineType ==
    /\ pc = "call"
    /\ op = "validateMachineType"
    /\ thrown' = validateMachineType(str)
    /\ returned' = {}
    /\ pc' = "done"
    /\ UNCHANGED <<tables, inputs, declared, got, held>>

\* validateMaxNodes(num)
CallValidateMaxNodes ==
    /\ pc = "call"
    /\ op = "validateMaxNodes"
    /\ thrown' = validateMaxNodes(num)
    /\ returned' = {}
    /\ pc' = "done"
    /\ UNCHANGED <<tables, inputs, declared, got, held>>

\* validateDiskSize(num)
CallValidateDiskSize ==
    /\ pc = "call"
    /\ op = "validateDiskSize"
    /\ thrown' = validateDiskSize(num)
    /\ returned' = {}
    /\ pc' = "done"
    /\ UNCHANGED <<tables, inputs, declared, got, held>>

\* validateNodeCount(num)
CallValidateNodeCount ==
    /\ pc = "call"
    /\ op = "validateNodeCount"
    /\ thrown' = validateNodeCount(num)
    /\ returned' = {}
    /\ pc' = "done"
    /\ UNCHANGED <<tables, inputs, declared, got, held>>

\* validateMasterCidr(cidr)
CallValidateMasterCidr ==
    /\ pc = "call"
    /\ op = "validateMasterCidr"
    /\ thrown' = validateMasterCidr(cidr)
    /\ returned' = {}
    /\ pc' = "done"
    /\ UNCHANGED <<tables, inputs, declared, got, held>>

\* new ClusterConfig(args)
NewClusterConfig ==
    /\ pc = "call"
    /\ op = "ClusterConfig"
    /\ thrown' = ClusterConfig(args).thrown
    /\ returned' = ClusterConfig(args).value
    /\ pc' = "done"
    /\ UNCHANGED <<tables, inputs, declared, got, held>>

\* new NetworkConfig(args)
NewNetworkConfig ==
    /\ pc = "call"
    /\ op = "NetworkConfig"
    /\ thrown' = NetworkConfig(args).thrown
    /\ returned' = NetworkConfig(args).value
    /\ pc' = "done"
    /\ UNCHANGED <<tables, inputs, declared, got, held>>

\* self.getClusterConfig(args)
CallGetClusterConfig ==
    /\ pc = "call"
    /\ op = "getClusterConfig"
    /\ thrown' = getClusterConfig(self, args).thrown
    /\ returned' = getClusterConfig(self, args).value
    /\ pc' = "done"
    /\ UNCHANGED <<tables, inputs, declared, got, held>>

\* self.getNetworkConfig(args)
CallGetNetworkConfig ==
    /\ pc = "call"
    /\ op = "getNetworkConfig"
    /\ thrown' = getNetworkConfig(self, args).thrown
    /\ returned' = getNetworkConfig(self, args).value
    /\ pc' = "done"
    /\ UNCHANGED <<tables, inputs, declared, got, held>>

\* new StandardSecrets(ComponentName, args)
NewStandardSecrets ==
    /\ pc = "call"
    /\ op = "StandardSecrets"
    /\ thrown' = StandardSecrets(ComponentName, args.secretIds, "").thrown
    /\ returned' = StandardSecrets(ComponentName, args.secretIds, "").value
    /\ declared' = StandardSecrets(ComponentName, args.secretIds, "").declared
    /\ pc' = "done"
    /\ UNCHANGED <<tables, inputs, got, held>>

\* new StandardIdentity(ComponentName, args)
NewStandardIdentity ==
    /\ pc = "call"
    /\ op = "StandardIdentity"
    /\ thrown' = StandardIdentity(ComponentName, args, "").thrown
    /\ returned' = StandardIdentity(ComponentName, args, "").value
    /\ declared' = StandardIdentity(ComponentName, args, "").declared
    /\ pc' = "done"
    /\ UNCHANGED <<tables, inputs, got, held>>

\* new StandardPlatform(ComponentName, args)
NewStandardPlatform ==
    /\ pc = "call"
    /\ op = "StandardPlatform"
    /\ thrown' = StandardPlatform(ComponentName, args).thrown
    /\ returned' = StandardPlatform(ComponentName, args).value
    /\ declared' = StandardPlatform(ComponentName, args).declared
    /\ pc' = "done"
    /\ UNCHANGED <<tables, inputs, got, held>>

\* The accessors of a constructed StandardPlatform.
IsPlatform == pc = "done" /\ op = "StandardPlatform"

\* platform.hasSecrets
GetHasSecrets ==
    /\ IsPlatform
    /\ \E platform \in returned :
          got' = [name |-> "hasSecrets", thrown |-> {}, value |-> {hasSecrets(platform)}]
    /\ UNCHANGED <<tables, inputs, pc, thrown, returned, declared, held>>

\* platform.hasIdentity
GetHasIdentity ==
    /\ IsPlatform
    /\ \E platform \in returned :
          got' = [name |-> "hasIdentity", thrown |-> {}, value |-> {hasIdentity(platform)}]
    /\ UNCHANGED <<tables, inputs, pc, thrown, returned, declared, held>>

\* platform.secrets
GetSecrets ==
    /\ IsPlatform
    /\ \E platform \in returned :
          got' = [name |-> "secrets", thrown |-> secrets(platform).thrown,
                  value |-> secrets(platform).value]
    /\ UNCHANGED <<tables, inputs, pc, thrown, returned, declared, held>>

\* platform.identity
GetIdentity ==
    /\ IsPlatform
    /\ \E platform \in returned :
          got' = [name |-> "identity", thrown |-> identity(platform).thrown,
                  value |-> identity(platform).value]
    /\ UNCHANGED <<tables, inputs, pc, thrown, returned, declared, held>>

\* platform.identityEmail
GetIdentityEmail ==
    /\ IsPlatform
    /\ \E platform \in returned :
          got' = [name |-> "identityEmail", thrown |-> identityEmail(platform).thrown,
                  value |-> identityEmail(platform).value]
    /\ UNCHANGED <<tables, inputs, pc, thrown, returned, declared, held>>

\* group.getSecret(id) on a constructed StandardSecrets
CallGetSecret ==
    /\ pc = "done"
    /\ op = "StandardSecrets"
    /\ \E group \in returned : \E id \in LookupIds :
          got' = [name |-> "getSecret", arg |-> id,
                  thrown |-> getSecret(group, id).thrown,
                  value |-> getSecret(group, id).value]
    /\ UNCHANGED <<tables, inputs, pc, thrown, returned, declared, held>>

\* A computed property is read from an object a call has returned; reading
\* leaves the object as it is and may be repeated.
IsClusterConfig == op \in {"ClusterConfig", "getClusterConfig"}

IsNetworkConfig == op \in {"NetworkConfig", "getNetworkConfig"}

Value(v) == [name |-> "", thrown |-> {}, value |-> {v}]

\* config.clusterName
GetClusterName ==
    /\ pc = "done" /\ IsClusterConfig
    /\ \E c \in returned : got' = [Value(clusterName(c)) EXCEPT !.name = "clusterName"]
    /\ UNCHANGED <<tables, inputs, pc, thrown, returned, declared, held>>

\* config.workloadPool
GetWorkloadPool ==
    /\ pc = "done" /\ IsClusterConfig
    /\ \E c \in returned : got' = [Value(workloadPool(c)) EXCEPT !.name = "workloadPool"]
    /\ UNCHANGED <<tables, inputs, pc, thrown, returned, declared, held>>

\* config.effectiveZone
GetEffectiveZone ==
    /\ pc = "done" /\ IsClusterConfig
    /\ \E c \in returned : got' = [Value(effectiveZone(c)) EXCEPT !.name = "effectiveZone"]
    /\ UNCHANGED <<tables, inputs, pc, thrown, returned, declared, held>>

\* config.vpcName
GetVpcName ==
    /\ pc = "done" /\ IsNetworkConfig
    /\ \E c \in returned : got' = [Value(vpcName(c)) EXCEPT !.name = "vpcName"]
    /\ UNCHANGED <<tables, inputs, pc, thrown, returned, declared, held>>

\* config.subnetName
GetSubnetName ==
    /\ pc = "done" /\ IsNetworkConfig
    /\ \E c \in returned : got' = [Value(subnetName(c)) EXCEPT !.name = "subnetName"]
    /\ UNCHANGED <<tables, inputs, pc, thrown, returned, declared, held>>

Next ==
    \/ CallValidateEnvironment
    \/ CallValidateRegion
    \/ CallValidateMachineType
    \/ CallValidateMaxNodes
    \/ CallValidateDiskSize
    \/ CallValidateNodeCount
    \/ CallValidateMasterCidr
    \/ NewClusterConfig
    \/ NewNetworkConfig
    \/ CallGetClusterConfig
    \/ CallGetNetworkConfig
    \/ NewStandardSecrets
    \/ NewStandardIdentity
    \/ NewStandardPlatform
    \/ GetHasSecrets
    \/ GetHasIdentity
    \/ GetSecrets
    \/ GetIdentity
    \/ GetIdentityEmail
    \/ CallGetSecret
    \/ GetClusterName
    \/ GetWorkloadPool
    \/ GetEffectiveZone
    \/ GetVpcName
    \/ GetSubnetName

Spec == Init /\ [][Next]_vars

(***************************************************************************)
(* A session on one profile: the caller constructs a profile and then      *)
(* calls its methods and reads its labels any number of times, keeping     *)
(* what each call gave.  held is the caller's list of those results in     *)
(* the order of the calls.                                                 *)
(***************************************************************************)
MaxCalls == 3

\* overrides handed to getClusterConfig in a session
SessionClusterOverrides ==
    {<<>>, [maxNodes |-> {20}], [maxNodes |-> {0}], [machineType |-> {}], [minNodes |-> {11}]}

\* overrides handed to getNetworkConfig in a session
SessionNetworkOverrides == {<<>>, [cidr |-> {"10.1.0.0/16"}]}

\* the caller's note of one call: what was called, with what, and its outcome
Outcome(call, overrides, result) ==
    [call |-> call, overrides |-> overrides, thrown |-> result.thrown, value |-> result.value]

\* new DevProfile(...), new StagingProfile(...) or new ProdProfile(...)
InitSession ==
    /\ ALLOWED_ENVIRONMENTS = Environments
    /\ ALLOWED_REGIONS = Regions
    /\ ALLOWED_MACHINE_TYPES = MachineTypes
    /\ CONSTRAINTS = NumericConstraints
    /\ op = "session"
    /\ pc = "ready"
    /\ self \in Profiles
    /\ args = <<>>
    /\ str = "" /\ num = 0 /\ cidr = <<>>
    /\ thrown = {}
    /\ returned = {}
    /\ declared = <<>>
    /\ got = NoRead
    /\ held = <<>>

SessionGetClusterConfig_Remembering ==
    /\ pc = "ready"
    /\ Len(held) < MaxCalls
    /\ \E overrides \in SessionClusterOverrides :
          LET last == IF Len(held) > 0 /\ held[Len(held)].call = "getClusterConfig"
                      THEN held[Len(held)].overrides ELSE <<>>
          IN  held' = Append(held, Outcome("getClusterConfig", overrides,
                                           getClusterConfig(self, Spread(last, overrides))))
    /\ UNCHANGED <<tables, inputs, pc, thrown, returned, declared, got>>

\* self.getClusterConfig(overrides), the caller keeping the result
SessionGetClusterConfig ==
    /\ pc = "ready"
    /\ Len(held) < MaxCalls
    /\ \E overrides \in SessionClusterOverrides :
          held' = Append(held, Outcome("getClusterConfig", overrides,
                                       getClusterConfig(self, overrides)))
    /\ UNCHANGED <<tables, inputs, pc, thrown, returned, declared, got>>

\* self.getNetworkConfig(overrides), the caller keeping the result
SessionGetNetworkConfig ==
    /\ pc = "ready"
    /\ Len(held) < MaxCalls
    /\ \E overrides \in SessionNetworkOverrides :
          held' = Append(held, Outcome("getNetworkConfig", overrides,
                                       getNetworkConfig(self, overrides)))
    /\ UNCHANGED <<tables, inputs, pc, thrown, returned, declared, got>>

\* self.commonLabels, the caller keeping the object the getter gave
SessionGetCommonLabels ==
    /\ pc = "ready"
    /\ Len(held) < MaxCalls
    /\ held' = Append(held, Outcome("commonLabels", <<>>, Return(commonLabels(self))))
    /\ UNCHANGED <<tables, inputs, pc, thrown, returned, declared, got>>

NextSession ==
    \/ SessionGetClusterConfig
    \/ SessionGetNetworkConfig
    \/ SessionGetCommonLabels

SpecSession == InitSession /\ [][NextSession]_vars

(***************************************************************************)
(* Properties.  Their vocabulary is written from the statements, not from  *)
(* the definitions above: a CIDR is read by the lengths of its four groups *)
(* and the allow-lists and bounds are spelled out.                         *)
(***************************************************************************)
Done(name) == pc = "done" /\ op = name

Threw(kind) == thrown # {} /\ \A e \in thrown : e.kind = kind

ThrewText(kind, text) == thrown # {} /\ \A e \in thrown : e.kind = kind /\ e.text = text

\* s is four groups of q[1], q[2], q[3], q[4] digits separated by dots, then /28
HasShape(s, q) ==
    LET n      == Len(s)
        start1 == 1
        start2 == start1 + q[1] + 1
        start3 == start2 + q[2] + 1
        start4 == start3 + q[3] + 1
        digit  == (start1..(start1 + q[1] - 1)) \cup (start2..(start2 + q[2] - 1)) \cup
                  (start3..(start3 + q[3] - 1)) \cup (start4..(start4 + q[4] - 1))
    IN  /\ n = q[1] + q[2] + q[3] + q[4] + 6
        /\ \A i \in digit : s[i] \in Digits
        /\ s[start2 - 1] = "." /\ s[start3 - 1] = "." /\ s[start4 - 1] = "."
        /\ s[n - 2] = "/" /\ s[n - 1] = "2" /\ s[n] = "8"

Shapes == (1..3) \X (1..3) \X (1..3) \X (1..3)

WellFormed(s) == \E q \in Shapes : HasShape(s, q)

\* the value of the group of len digits that starts at position from
GroupValue(s, from, len) ==
    IF len = 1 THEN DigitValue[s[from]]
    ELSE IF len = 2 THEN 10 * DigitValue[s[from]] + DigitValue[s[from + 1]]
    ELSE 100 * DigitValue[s[from]] + 10 * DigitValue[s[from + 1]] + DigitValue[s[from + 2]]

\* the four octets of a well-formed s, numbered from 0 as in the statements
Octet(s) ==
    LET q == CHOOSE r \in Shapes : HasShape(s, r)
    IN  [i \in 0..3 |->
            IF i = 0 THEN GroupValue(s, 1, q[1])
            ELSE IF i = 1 THEN GroupValue(s, q[1] + 2, q[2])
            ELSE IF i = 2 THEN GroupValue(s, q[1] + q[2] + 3, q[3])
            ELSE GroupValue(s, q[1] + q[2] + q[3] + 4, q[4])]

OctetsInRange(s) == \A i \in 0..3 : Octet(s)[i] >= 0 /\ Octet(s)[i] <= 255

Rfc1918(s) ==
    \/ Octet(s)[0] = 10
    \/ Octet(s)[0] = 172 /\ 16 <= Octet(s)[1] /\ Octet(s)[1] <= 31
    \/ Octet(s)[0] = 192 /\ Octet(s)[1] = 168

Aligned(s) == Octet(s)[3] % 16 = 0

AlignedPrivate28(s) == WellFormed(s) /\ OctetsInRange(s) /\ Rfc1918(s) /\ Aligned(s)

\* C1: validateMasterCidr(cidr) returns normally exactly when cidr is four
\* dot-separated groups of 1 to 3 digits followed by /28, every octet is in
\* 0..255, the address is RFC 1918 private and octet3 is a multiple of 16;
\* on every other input it throws.
C1_MasterCidrAcceptedIff ==
    Done("validateMasterCidr") =>
        /\ AlignedPrivate28(cidr) => thrown = {}
        /\ ~AlignedPrivate28(cidr) => thrown # {}

\* 172.16.255.240/28, the low end of the 172 range, is accepted
C1_Witness ==
    /\ Done("validateMasterCidr")
    /\ cidr = Numeral(172) \o <<".">> \o Numeral(16) \o <<".">> \o Numeral(255) \o <<".">>
              \o Numeral(240) \o <<"/", "2", "8">>
    /\ thrown = {}

\* C2: validateMasterCidr checks format, then octet range, then private-range
\* membership, then alignment, and reports the error of the first check that
\* fails, whatever later checks would have said.
C2_FirstFailingCheckReported ==
    Done("validateMasterCidr") =>
        /\ ~WellFormed(cidr) =>
              ThrewText("MalformedCidr", "masterCidr must be a /28 CIDR block")
        /\ (WellFormed(cidr) /\ ~OctetsInRange(cidr)) =>
              ThrewText("MalformedCidr", "Invalid IP address in masterCidr")
        /\ (WellFormed(cidr) /\ OctetsInRange(cidr) /\ ~Rfc1918(cidr)) =>
              Threw("NotPrivateRange")
        /\ (WellFormed(cidr) /\ OctetsInRange(cidr) /\ Rfc1918(cidr) /\ ~Aligned(cidr)) =>
              Threw("MisalignedBlock")

\* 8.15.0.1/28 is public and misaligned: the private-range error is reported
C2_Witness ==
    /\ Done("validateMasterCidr")
    /\ cidr = <<"8", ".", "1", "5", ".", "0", ".", "1", "/", "2", "8">>
    /\ ~Rfc1918(cidr) /\ ~Aligned(cidr)
    /\ Threw("NotPrivateRange")

\* the allow-lists and bounds as the statements give them
ThreeEnvironments == {"dev", "staging", "prod"}

FiveRegions == {"europe-west1", "europe-west3", "europe-west4", "us-central1", "us-east1"}

TenMachineTypes ==
    {"e2-micro", "e2-small", "e2-medium", "e2-standard-2", "e2-standard-4",
     "n2-standard-2", "n2-standard-4", "n2-standard-8", "n2-highmem-2", "n2-highmem-4"}

\* the value an optional input resolves to
Resolve(opt, documented) == IF opt = {} THEN documented ELSE CHOOSE v \in opt : TRUE

\* the validated inputs of a ClusterConfig construction, documented defaults applied
Resolved(a) ==
    [env         |-> a.env,
     region      |-> a.region,
     machineType |-> Resolve(a.machineType, "e2-medium"),
     maxNodes    |-> Resolve(a.maxNodes, 3),
     diskSize    |-> Resolve(a.diskSize, 50),
     nodeCount   |-> Resolve(a.nodeCount, 1),
     minNodes    |-> Resolve(a.minNodes, 1),
     masterCidr  |-> Resolve(a.masterCidr, Numeral(172) \o <<".">> \o Numeral(16)
                                             \o <<".", "0", ".", "0", "/", "2", "8">>)]

\* the constraints that come before the minNodes / maxNodes comparison
EarlierPolicy(c) ==
    /\ c.env \in ThreeEnvironments
    /\ c.region \in FiveRegions
    /\ c.machineType \in TenMachineTypes
    /\ 1 <= c.maxNodes /\ c.maxNodes <= 50
    /\ 30 <= c.diskSize /\ c.diskSize <= 200
    /\ 1 <= c.nodeCount /\ c.nodeCount <= 20

Policy(c) ==
    /\ EarlierPolicy(c)
    /\ c.minNodes <= c.maxNodes
    /\ AlignedPrivate28(c.masterCidr)

\* C3: every ClusterConfig that construction returns satisfies every policy
\* constraint at once, and when the resolved inputs break any of them the
\* construction fails and returns no ClusterConfig.
C3_ReturnedConfigSatisfiesPolicy ==
    Done("ClusterConfig") =>
        /\ \A c \in returned : Policy(c)
        /\ ~Policy(Resolved(args)) => (thrown # {} /\ returned = {})

\* a config with minNodes = maxNodes = 50 and an explicit master CIDR is returned
C3_Witness ==
    /\ Done("ClusterConfig")
    /\ args.maxNodes = {50} /\ args.minNodes = {50} /\ args.diskSize = {30}
    /\ args.masterCidr # {}
    /\ returned # {}
    /\ \A c \in returned : c.maxNodes = 50 /\ Policy(c)

\* C4 as stated: whenever the resolved minNodes exceeds the resolved maxNodes
\* construction fails with MinExceedsMax, and whenever they are equal it
\* succeeds.
C4_AsStated ==
    Done("ClusterConfig") =>
        /\ Resolved(args).minNodes > Resolved(args).maxNodes => Threw("MinExceedsMax")
        /\ Resolved(args).minNodes = Resolved(args).maxNodes => (thrown = {} /\ returned # {})

\* C4 (amended): when env, region, machineType, maxNodes, diskSize and nodeCount
\* pass their checks and the resolved minNodes exceeds the resolved maxNodes,
\* construction fails with MinExceedsMax; when they are equal and masterCidr
\* is valid as well, construction succeeds.
C4_MinExceedsMaxAfterEarlierChecks ==
    Done("ClusterConfig") =>
        /\ (EarlierPolicy(Resolved(args)) /\ Resolved(args).minNodes > Resolved(args).maxNodes)
              => (Threw("MinExceedsMax") /\ returned = {})
        /\ (EarlierPolicy(Resolved(args)) /\ Resolved(args).minNodes = Resolved(args).maxNodes
              /\ AlignedPrivate28(Resolved(args).masterCidr))
              => (thrown = {} /\ returned # {})

\* minNodes 4 against the default maxNodes 3
C4_Witness ==
    /\ Done("ClusterConfig")
    /\ args.minNodes = {4} /\ args.maxNodes = {}
    /\ EarlierPolicy(Resolved(args))
    /\ Threw("MinExceedsMax")

\* the error of the earliest failing step, <<kind, text>>, or <<>> when no step fails
FirstFailure(c) ==
    IF c.env \notin ThreeEnvironments THEN <<"InvalidEnvironment", "Invalid environment">>
    ELSE IF c.region \notin FiveRegions THEN <<"InvalidRegion", "Invalid region">>
    ELSE IF c.machineType \notin TenMachineTypes
    THEN <<"InvalidMachineType", "Invalid machine type">>
    ELSE IF c.maxNodes < 1 \/ c.maxNodes > 50 THEN <<"OutOfRange", "maxNodes must be between">>
    ELSE IF c.diskSize < 30 \/ c.diskSize > 200 THEN <<"OutOfRange", "diskSize must be between">>
    ELSE IF c.nodeCount < 1 \/ c.nodeCount > 20
    THEN <<"OutOfRange", "nodeCount must be between">>
    ELSE IF c.minNodes > c.maxNodes THEN <<"MinExceedsMax", "cannot be greater than maxNodes">>
    ELSE IF ~WellFormed(c.masterCidr)
    THEN <<"MalformedCidr", "masterCidr must be a /28 CIDR block">>
    ELSE IF ~OctetsInRange(c.masterCidr)
    THEN <<"MalformedCidr", "Invalid IP address in masterCidr">>
    ELSE IF ~Rfc1918(c.masterCidr)
    THEN <<"NotPrivateRange", "masterCidr must be in RFC 1918 private range">>
    ELSE IF ~Aligned(c.masterCidr)
    THEN <<"MisalignedBlock", "masterCidr /28 block must be aligned">>
    ELSE <<>>

\* C5: ClusterConfig construction checks environment, region, machineType,
\* maxNodes, diskSize, nodeCount, minNodes <= maxNodes and the masterCidr chain
\* in that order; with several invalid inputs the error raised is the one of
\* the earliest step, and with none it returns the object.
C5_EarliestStepReported ==
    Done("ClusterConfig") =>
        LET first == FirstFailure(Resolved(args))
        IN  IF first = <<>>
            THEN thrown = {} /\ returned # {}
            ELSE ThrewText(first[1], first[2]) /\ returned = {}

\* maxNodes 0 with the default minNodes 1 and a public master CIDR: OutOfRange
C5_Witness ==
    /\ Done("ClusterConfig")
    /\ args.env \in ThreeEnvironments /\ args.region \in FiveRegions
    /\ args.machineType = {}
    /\ args.maxNodes = {0} /\ args.minNodes = {}
    /\ args.diskSize = {201}
    /\ args.masterCidr = {<<"8", ".", "8", ".", "8", ".", "0", "/", "2", "8">>}
    /\ ThrewText("OutOfRange", "maxNodes must be between")

IsConstructor == pc = "done" /\ op \in {"ClusterConfig", "NetworkConfig"}

\* C6: for every env outside {dev, staging, prod}, NetworkConfig and
\* ClusterConfig construction fail with InvalidEnvironment whatever the other
\* fields hold.
C6_InvalidEnvironmentAlwaysReported ==
    (IsConstructor /\ args.env \notin ThreeEnvironments) =>
        (Threw("InvalidEnvironment") /\ returned = {})

\* a NetworkConfig with an unknown env and an unknown region
C6_Witness ==
    /\ Done("NetworkConfig")
    /\ args.env = "production" /\ args.region = "asia-east1"
    /\ Threw("InvalidEnvironment")

\* C7 as stated: for every region outside the five allowed regions,
\* NetworkConfig and ClusterConfig construction fail with InvalidRegion.
C7_AsStated ==
    (IsConstructor /\ args.region \notin FiveRegions) =>
        (Threw("InvalidRegion") /\ returned = {})

\* C7 (amended): for every region outside the five allowed regions and every
\* env in {dev, staging, prod}, NetworkConfig and ClusterConfig construction
\* fail with InvalidRegion.
C7_InvalidRegionWhenEnvValid ==
    (IsConstructor /\ args.region \notin FiveRegions /\ args.env \in ThreeEnvironments) =>
        (Threw("InvalidRegion") /\ returned = {})

\* a ClusterConfig for prod in asia-east1 with an unknown machine type
C7_Witness ==
    /\ Done("ClusterConfig")
    /\ args.env = "prod" /\ args.region = "asia-east1"
    /\ args.machineType = {"n1-standard-1"}
    /\ Threw("InvalidRegion")

\* C8: validateMaxNodes(n) succeeds iff 1 <= n <= 50, validateDiskSize(n) iff
\* 30 <= n <= 200, validateNodeCount(n) iff 1 <= n <= 20; outside the
\* inclusive range each fails with OutOfRange.
C8_NumericBoundsInclusive ==
    /\ Done("validateMaxNodes") =>
          IF 1 <= num /\ num <= 50 THEN thrown = {} ELSE Threw("OutOfRange")
    /\ Done("validateDiskSize") =>
          IF 30 <= num /\ num <= 200 THEN thrown = {} ELSE Threw("OutOfRange")
    /\ Done("validateNodeCount") =>
          IF 1 <= num /\ num <= 20 THEN thrown = {} ELSE Threw("OutOfRange")

\* the upper end of the disk range is accepted
C8_Witness == Done("validateDiskSize") /\ num = 200 /\ thrown = {}

\* what an allow-list error must say: the offending value and the whole list
Names(value, list) == thrown # {} /\ \A e \in thrown : e.value = value /\ e.allowed = list

\* C9: validateEnvironment, validateRegion and validateMachineType succeed iff
\* the argument is a member of their allow-list, and the error of a failure
\* names the offending value and the full list of accepted values.
C9_AllowListValidators ==
    /\ Done("validateEnvironment") =>
          IF str \in ThreeEnvironments THEN thrown = {}
          ELSE Threw("InvalidEnvironment") /\ Names(str, "dev, staging, prod")
    /\ Done("validateRegion") =>
          IF str \in FiveRegions THEN thrown = {}
          ELSE /\ Threw("InvalidRegion")
               /\ Names(str, "europe-west1, europe-west3, europe-west4, us-central1, us-east1")
    /\ Done("validateMachineType") =>
          IF str \in TenMachineTypes THEN thrown = {}
          ELSE /\ Threw("InvalidMachineType")
               /\ Names(str, "e2-micro, e2-small, e2-medium, e2-standard-2, e2-standard-4, "
                             \o "n2-standard-2, n2-standard-4, n2-standard-8, n2-highmem-2, "
                             \o "n2-highmem-4")

\* an unknown machine type is rejected with the list of ten
C9_Witness ==
    /\ Done("validateMachineType")
    /\ str = "n1-standard-1"
    /\ Threw("InvalidMachineType")

NoDuplicates(list) == \A i, j \in 1..Len(list) : list[i] = list[j] => i = j

TablesWellFormed ==
    /\ \A name \in DOMAIN CONSTRAINTS : CONSTRAINTS[name].min <= CONSTRAINTS[name].max
    /\ DOMAIN CONSTRAINTS = {"maxNodes", "diskSize", "nodeCount"}
    /\ Len(ALLOWED_ENVIRONMENTS) = 3 /\ NoDuplicates(ALLOWED_ENVIRONMENTS)
    /\ Len(ALLOWED_REGIONS) = 5 /\ NoDuplicates(ALLOWED_REGIONS)
    /\ Len(ALLOWED_MACHINE_TYPES) = 10 /\ NoDuplicates(ALLOWED_MACHINE_TYPES)

Holds(c, a, f, documented) ==
    /\ a[f] = {} => c[f] = documented
    /\ a[f] # {} => a[f] = {c[f]}

RequiredKept(c, a) ==
    /\ c.projectId = a.projectId /\ c.region = a.region
    /\ c.env = a.env /\ c.prefix = a.prefix

\* C11: a ClusterConfig or NetworkConfig that construction returns holds, for
\* every optional field the caller omitted, the documented default (zone:
\* region followed by -a) and, for every field the caller supplied, exactly
\* the supplied value.
C11_DefaultsAndSuppliedValues ==
    /\ Done("ClusterConfig") =>
          \A c \in returned :
              /\ RequiredKept(c, args)
              /\ Holds(c, args, "zone", args.region \o "-a")
              /\ Holds(c, args, "machineType", "e2-medium")
              /\ Holds(c, args, "nodeCount", 1)
              /\ Holds(c, args, "minNodes", 1)
              /\ Holds(c, args, "maxNodes", 3)
              /\ Holds(c, args, "diskSize", 50)
              /\ Holds(c, args, "spotInstances", TRUE)
              /\ Holds(c, args, "masterCidr",
                       <<"1", "7", "2", ".", "1", "6", ".", "0", ".", "0", "/", "2", "8">>)
              /\ Holds(c, args, "podRangeName", "pod-ranges")
              /\ Holds(c, args, "serviceRangeName", "service-ranges")
    /\ Done("NetworkConfig") =>
          \A c \in returned :
              /\ RequiredKept(c, args)
              /\ Holds(c, args, "cidr", "10.0.0.0/16")
              /\ Holds(c, args, "podCidr", "10.11.0.0/21")
              /\ Holds(c, args, "serviceCidr", "10.12.0.0/21")
              /\ Holds(c, args, "podRangeName", "pod-ranges")
              /\ Holds(c, args, "serviceRangeName", "service-ranges")

\* a ClusterConfig built in us-east1 with spotInstances false and an empty
\* podRangeName supplied and the zone left out
C11_Witness ==
    /\ Done("ClusterConfig")
    /\ args.region = "us-east1" /\ args.zone = {}
    /\ args.spotInstances = {FALSE} /\ args.podRangeName = {""}
    /\ \E c \in returned :
          c.zone = "us-east1-a" /\ c.spotInstances = FALSE /\ c.podRangeName = ""

\* the names the statements give, from the four fields they depend on
DocumentedNames(prefix, env, projectId, zone) ==
    [vpcName       |-> prefix \o "-" \o env \o "-vpc",
     subnetName    |-> prefix \o "-" \o env \o "-subnet",
     clusterName   |-> prefix \o "-" \o env \o "-cluster",
     workloadPool  |-> projectId \o ".svc.id.goog",
     effectiveZone |-> zone]

\* the smallest argument object with the given four fields
OnlyNamed(prefix, env, projectId, zone, region) ==
    [projectId |-> projectId, region |-> region, env |-> env, prefix |-> prefix,
     zone |-> {zone}, machineType |-> {}, nodeCount |-> {}, minNodes |-> {},
     maxNodes |-> {}, diskSize |-> {}, spotInstances |-> {}, masterCidr |-> {},
     podRangeName |-> {}, serviceRangeName |-> {}]

\* C12: every computed name read from a configuration object is the documented
\* function of the object's prefix, env, projectId and zone, and equals the
\* name read from any other configuration built with the same four values,
\* whatever that one's region and other fields are.
C12_DerivedNamesDeterministic ==
    (pc = "done" /\ got # NoRead /\ got.name \in DOMAIN DocumentedNames("", "", "", "")) =>
        \A c \in returned :
            /\ got.thrown = {}
            /\ got.value =
                  {DocumentedNames(c.prefix, c.env, c.projectId,
                                   IF IsClusterConfig THEN c.zone ELSE "")[got.name]}
            /\ IsClusterConfig =>
                  \A region \in FiveRegions :
                      \A d \in ClusterConfig(OnlyNamed(c.prefix, c.env, c.projectId,
                                                      c.zone, region)).value :
                          /\ got.name = "clusterName" => got.value = {clusterName(d)}
                          /\ got.name = "workloadPool" => got.value = {workloadPool(d)}
                          /\ got.name = "effectiveZone" => got.value = {effectiveZone(d)}
            /\ IsNetworkConfig =>
                  \A region \in FiveRegions :
                      \A d \in NetworkConfig([projectId |-> c.projectId, region |-> region,
                                               env |-> c.env, prefix |-> c.prefix,
                                               cidr |-> {}, podCidr |-> {}, serviceCidr |-> {},
                                               podRangeName |-> {},
                                               serviceRangeName |-> {}]).value :
                          /\ got.name = "vpcName" => got.value = {vpcName(d)}
                          /\ got.name = "subnetName" => got.value = {subnetName(d)}

\* clusterName read from a configuration whose zone, spotInstances and range
\* names were all supplied
C12_Witness ==
    /\ Done("ClusterConfig")
    /\ args.zone = {"europe-west1-b"} /\ args.region = "us-east1"
    /\ args.spotInstances = {FALSE} /\ args.serviceRangeName = {"services"}
    /\ args.prefix = "shop" /\ args.env = "dev"
    /\ got # NoRead /\ got.name = "clusterName" /\ got.value = {"shop-dev-cluster"}

(***************************************************************************)
(* Profiles.                                                               *)
(***************************************************************************)
\* the profile table of the statements: CostOptimized is DevProfile, Balanced
\* is StagingProfile and HA is ProdProfile
ProfileTable ==
    [DevProfile     |-> [machineType |-> "e2-medium", nodeCount |-> 1, minNodes |-> 1,
                         maxNodes |-> 3, spotInstances |-> TRUE, diskSize |-> 50],
     StagingProfile |-> [machineType |-> "n2-standard-2", nodeCount |-> 2, minNodes |-> 2,
                         maxNodes |-> 5, spotInstances |-> TRUE, diskSize |-> 75],
     ProdProfile    |-> [machineType |-> "n2-standard-4", nodeCount |-> 3, minNodes |-> 3,
                         maxNodes |-> 10, spotInstances |-> FALSE, diskSize |-> 100]]

TableFields == {"machineType", "nodeCount", "minNodes", "maxNodes", "spotInstances", "diskSize"}

\* the overrides name field f
Mentioned(f) == f \in DOMAIN args

\* the overrides give field f a value
Supplied(f) == f \in DOMAIN args /\ args[f] # {}

ProfileUsable == self.env \in ThreeEnvironments /\ self.region \in FiveRegions

\* C13: called with no overrides, getClusterConfig of a Dev, Staging or Prod
\* profile returns a configuration whose machineType, nodeCount, minNodes,
\* maxNodes, spotInstances and diskSize are the row of the profile table, and
\* it does return one when the profile's env and region are allowed.
C13_ProfileDefaults ==
    (Done("getClusterConfig") /\ DOMAIN args = {}) =>
        /\ \A c \in returned : \A f \in TableFields : c[f] = ProfileTable[self.class][f]
        /\ ProfileUsable => returned # {}

\* the staging profile called with no overrides returns n2-standard-2 / 75
C13_Witness ==
    /\ Done("getClusterConfig") /\ DOMAIN args = {}
    /\ self.class = "StagingProfile"
    /\ \E c \in returned : c.machineType = "n2-standard-2" /\ c.diskSize = 75 /\ c.maxNodes = 5

\* C14: in the configuration getClusterConfig returns, every field the
\* overrides supply holds the override value and every table field the
\* overrides do not mention holds the variant's default.
C14_OverridesWinFieldByField ==
    Done("getClusterConfig") =>
        \A c \in returned : \A f \in TableFields :
            /\ Supplied(f) => args[f] = {c[f]}
            /\ ~Mentioned(f) => c[f] = ProfileTable[self.class][f]

\* maxNodes = 20 on the Prod profile: 20, spotInstances false, minNodes 3
C14_Witness ==
    /\ Done("getClusterConfig")
    /\ self.class = "ProdProfile"
    /\ DOMAIN args = {"maxNodes"} /\ args["maxNodes"] = {20}
    /\ \E c \in returned : c.maxNodes = 20 /\ c.spotInstances = FALSE /\ c.minNodes = 3

\* the merged fields: the profile's four fields, each table field replaced
\* by the override that names it, and every other optional field as overridden
MergedField(f) ==
    IF f \in DOMAIN args THEN args[f]
    ELSE IF f \in TableFields THEN {ProfileTable[self.class][f]}
    ELSE {}

MergedFields ==
    [projectId        |-> self.projectId,
     region           |-> self.region,
     env              |-> self.env,
     prefix           |-> self.prefix,
     zone             |-> MergedField("zone"),
     machineType      |-> MergedField("machineType"),
     nodeCount        |-> MergedField("nodeCount"),
     minNodes         |-> MergedField("minNodes"),
     maxNodes         |-> MergedField("maxNodes"),
     diskSize         |-> MergedField("diskSize"),
     spotInstances    |-> MergedField("spotInstances"),
     masterCidr       |-> MergedField("masterCidr"),
     podRangeName     |-> MergedField("podRangeName"),
     serviceRangeName |-> MergedField("serviceRangeName")]

\* the call fails as ClusterConfig construction on the merged fields does, or
\* returns a configuration that satisfies the policy
FailsAlikeOrSatisfiesPolicy ==
    /\ thrown = ClusterConfig(MergedFields).thrown
    /\ thrown # {} => returned = {}
    /\ thrown = {} => (returned # {} /\ \A c \in returned : Policy(c))

\* C15 as stated: besides the above, every override of maxNodes below the
\* variant's default minNodes, and every override of minNodes above its
\* default maxNodes, fails with MinExceedsMax.
C15_AsStated ==
    Done("getClusterConfig") =>
        /\ FailsAlikeOrSatisfiesPolicy
        /\ \A v \in NumInputs :
              /\ (Supplied("maxNodes") /\ args["maxNodes"] = {v}
                    /\ v < ProfileTable[self.class].minNodes) => Threw("MinExceedsMax")
              /\ (Supplied("minNodes") /\ args["minNodes"] = {v}
                    /\ v > ProfileTable[self.class].maxNodes) => Threw("MinExceedsMax")

\* C15 (amended): getClusterConfig fails as ClusterConfig construction on the
\* merged fields does or returns a configuration that satisfies the policy;
\* when the merged env, region, machineType, maxNodes, diskSize and nodeCount
\* pass their checks, an override of maxNodes below the variant's default
\* minNodes that leaves minNodes unmentioned, and an override of minNodes above
\* the variant's default maxNodes that leaves maxNodes unmentioned, fail with
\* MinExceedsMax.
C15_ProfileCannotBypassPolicy ==
    Done("getClusterConfig") =>
        /\ FailsAlikeOrSatisfiesPolicy
        /\ EarlierPolicy(Resolved(MergedFields)) =>
              \A v \in NumInputs :
                  /\ (Supplied("maxNodes") /\ args["maxNodes"] = {v} /\ ~Mentioned("minNodes")
                        /\ v < ProfileTable[self.class].minNodes) => Threw("MinExceedsMax")
                  /\ (Supplied("minNodes") /\ args["minNodes"] = {v} /\ ~Mentioned("maxNodes")
                        /\ v > ProfileTable[self.class].maxNodes) => Threw("MinExceedsMax")

\* maxNodes = 2 on the Prod profile, whose default minNodes is 3
C15_Witness ==
    /\ Done("getClusterConfig")
    /\ self.class = "ProdProfile" /\ ProfileUsable
    /\ DOMAIN args = {"maxNodes"} /\ args["maxNodes"] = {2}
    /\ Threw("MinExceedsMax") /\ returned = {}

(***************************************************************************)
(* The composite and its optional groups.                                  *)
(***************************************************************************)
\* the declared resources of a type
DeclaredOfType(type) == { declared[i] : i \in {j \in 1..Len(declared) : declared[j].type = type} }

\* the six table fields as the node pool of the cluster group carries them
PoolFields(pool) ==
    [machineType   |-> pool.props.machineType,
     nodeCount     |-> pool.props.initialNodeCount,
     minNodes      |-> pool.props.minNodeCount,
     maxNodes      |-> pool.props.maxNodeCount,
     spotInstances |-> pool.props.spot,
     diskSize      |-> pool.props.diskSizeGb]

\* the profile the statements assign to a recognised env
VariantOf(env) ==
    IF env = "prod" THEN "ProdProfile"
    ELSE IF env = "staging" THEN "StagingProfile"
    ELSE "DevProfile"

NoClusterOverrides == args.clusterOverrides = {} \/ args.clusterOverrides = {<<>>}

\* C16: the composite derives its ClusterConfig from the Prod profile when
\* env is prod, from the Staging profile when env is staging and from the Dev
\* profile when env is dev: with no clusterOverrides the cluster group it
\* declares carries that variant's six defaults, and it does declare one.
C16_ProfileSelectedByEnv ==
    (Done("StandardPlatform") /\ args.env \in ThreeEnvironments /\ NoClusterOverrides) =>
        /\ \A pool \in DeclaredOfType("gcp:container:NodePool") :
              \A f \in TableFields : PoolFields(pool)[f] = ProfileTable[VariantOf(args.env)][f]
        /\ args.region \in FiveRegions => DeclaredOfType("gcp:container:NodePool") # {}

\* env staging, no overrides: n2-standard-2 with 75 GB disks
C16_Witness ==
    /\ Done("StandardPlatform") /\ args.env = "staging" /\ NoClusterOverrides
    /\ returned # {}
    /\ \E pool \in DeclaredOfType("gcp:container:NodePool") :
          pool.props.machineType = "n2-standard-2" /\ pool.props.diskSizeGb = 75

EmptyListSupplied == args.secretIds = {<<>>}

SecretsGroupDeclared == DeclaredOfType("x-infra-kit:security:StandardSecrets") # {}

IdentityGroupDeclared == DeclaredOfType("x-infra-kit:security:StandardIdentity") # {}

\* the merged cluster fields of the composite: the variant's defaults, the
\* range names of the network and the caller's clusterOverrides on top
PlatformMergedField(f) ==
    LET overrides == IF args.clusterOverrides = {} THEN <<>>
                     ELSE CHOOSE o \in args.clusterOverrides : TRUE
    IN  IF f \in DOMAIN overrides THEN overrides[f]
        ELSE IF f \in TableFields THEN {ProfileTable[VariantOf(args.env)][f]}
        ELSE {}

\* network and cluster derivation succeed
NetworkAndClusterValid ==
    /\ args.env \in ThreeEnvironments
    /\ args.region \in FiveRegions
    /\ Policy(Resolved([env         |-> args.env,
                        region      |-> args.region,
                        machineType |-> PlatformMergedField("machineType"),
                        maxNodes    |-> PlatformMergedField("maxNodes"),
                        diskSize    |-> PlatformMergedField("diskSize"),
                        nodeCount   |-> PlatformMergedField("nodeCount"),
                        minNodes    |-> PlatformMergedField("minNodes"),
                        masterCidr  |-> PlatformMergedField("masterCidr")]))

\* every character of the secret id is whitespace (none, for the empty id)
WhitespaceOnly(secretId) == \A i \in 1..Len(secretId) : secretId[i] \in {" ", "\t", "\n"}

\* the secrets input is absent, empty, or free of blank entries
SecretsInputValid ==
    \A list \in args.secretIds : \A i \in 1..Len(list) : ~WhitespaceOnly(list[i])

\* the identity input is absent or complete, with an saId of 6 to 30 characters
IdentityInputValid ==
    \A w \in args.workloadIdentity :
        /\ w.saId # "" /\ w.k8sNamespace # "" /\ w.k8sSaName # ""
        /\ Len(w.saId) >= 6 /\ Len(w.saId) <= 30
        /\ args.projectId # ""

\* C17 as stated: a composite constructed with an explicitly supplied empty
\* secretIds list fails with EmptySecretList.
C17_AsStated ==
    (Done("StandardPlatform") /\ EmptyListSupplied) => Threw("EmptySecretList")

\* C17 (amended): a composite constructed with an explicitly supplied empty
\* secretIds list never fails with EmptySecretList: the list counts as absent,
\* no secrets group is declared, a returned composite has hasSecrets false,
\* and with the network, cluster and identity inputs valid construction
\* succeeds.
C17_EmptySecretListIgnored ==
    (Done("StandardPlatform") /\ EmptyListSupplied) =>
        /\ \A e \in thrown : e.kind # "EmptySecretList"
        /\ ~SecretsGroupDeclared
        /\ \A platform \in returned : platform._secrets = {}
        /\ (NetworkAndClusterValid /\ IdentityInputValid) => (thrown = {} /\ returned # {})

\* an empty list and otherwise valid inputs: constructed, no secrets group
C17_Witness ==
    /\ Done("StandardPlatform") /\ EmptyListSupplied
    /\ NetworkAndClusterValid /\ args.workloadIdentity = {}
    /\ thrown = {} /\ returned # {} /\ ~SecretsGroupDeclared

AnyIdentityFieldBlank ==
    \E w \in args.workloadIdentity : w.saId = "" \/ w.k8sNamespace = "" \/ w.k8sSaName = ""

IdentityComplete ==
    \E w \in args.workloadIdentity :
        /\ w.saId # "" /\ w.k8sNamespace # "" /\ w.k8sSaName # ""
        /\ Len(w.saId) >= 6 /\ Len(w.saId) <= 30

\* C18 as stated: with any of saId, k8sNamespace, k8sSaName blank the
\* construction fails with IncompleteIdentityConfig and declares no identity
\* group; with all three non-blank and an saId of 6 to 30 characters the
\* identity group is declared and hasIdentity is true.
C18_AsStated ==
    Done("StandardPlatform") =>
        /\ AnyIdentityFieldBlank =>
              (Threw("IncompleteIdentityConfig") /\ ~IdentityGroupDeclared)
        /\ IdentityComplete =>
              (IdentityGroupDeclared /\ returned # {}
               /\ \A platform \in returned : platform._identity # {})

\* C18 (amended): when the network and cluster inputs are valid and the
\* secrets input is absent, empty or free of blank entries, a workloadIdentity
\* with any of saId, k8sNamespace, k8sSaName blank makes the construction fail
\* with IncompleteIdentityConfig and no identity group is declared; with all
\* three non-blank, an saId of 6 to 30 characters and a non-blank projectId
\* the identity group is declared and hasIdentity is true.
C18_IdentityStepReached ==
    (Done("StandardPlatform") /\ NetworkAndClusterValid /\ SecretsInputValid) =>
        /\ AnyIdentityFieldBlank =>
              (Threw("IncompleteIdentityConfig") /\ returned = {} /\ ~IdentityGroupDeclared)
        /\ (IdentityComplete /\ args.projectId # "") =>
              (IdentityGroupDeclared /\ thrown = {} /\ returned # {}
               /\ \A platform \in returned : platform._identity # {})

\* an empty k8sNamespace beside a valid saId and k8sSaName
C18_Witness ==
    /\ Done("StandardPlatform") /\ NetworkAndClusterValid /\ SecretsInputValid
    /\ \E w \in args.workloadIdentity :
          w.saId = "my-app-sa" /\ w.k8sNamespace = "" /\ w.k8sSaName = "app"
    /\ Threw("IncompleteIdentityConfig") /\ ~IdentityGroupDeclared

\* what each accessor read must have yielded on the constructed composite
AccessorsAnswerForDeclaredGroups ==
    (IsPlatform /\ returned # {} /\ got # NoRead) =>
        /\ got.name = "hasSecrets" => (got.thrown = {} /\ got.value = {SecretsGroupDeclared})
        /\ got.name = "hasIdentity" => (got.thrown = {} /\ got.value = {IdentityGroupDeclared})
        /\ got.name = "secrets" =>
              IF SecretsGroupDeclared
              THEN /\ got.thrown = {}
                   /\ \E group \in got.value :
                         /\ group.class = "StandardSecrets"
                         /\ args.secretIds = {group.secretIds}
              ELSE /\ got.value = {}
                   /\ \A e \in got.thrown : e.kind = "NotConfigured"
                   /\ got.thrown # {}
        /\ got.name \in {"identity", "identityEmail"} =>
              IF IdentityGroupDeclared
              THEN /\ got.thrown = {}
                   /\ got.value # {}
                   /\ got.name = "identity" =>
                         \A group \in got.value : group.class = "StandardIdentity"
              ELSE /\ got.value = {}
                   /\ \A e \in got.thrown : e.kind = "NotConfigured"
                   /\ got.thrown # {}

\* a read leaves the composite and what it declared as they were
ReadChangesNothing ==
    (IsPlatform /\ returned # {}) => (returned' = returned /\ declared' = declared)

\* C19: on a constructed composite hasSecrets and hasIdentity are true exactly
\* when the group was declared during construction; secrets fails with
\* NotConfigured exactly when hasSecrets is false and otherwise returns the
\* declared secrets group; identity and identityEmail fail with NotConfigured
\* exactly when hasIdentity is false; and no read changes the composite.
C19_AccessorsFailExactlyWhenNotDeclared ==
    []AccessorsAnswerForDeclaredGroups /\ [][ReadChangesNothing]_vars

\* identityEmail read on a composite that has secrets and no identity
C19_Witness ==
    /\ IsPlatform /\ returned # {}
    /\ SecretsGroupDeclared /\ ~IdentityGroupDeclared
    /\ got # NoRead /\ got.name = "identityEmail"
    /\ got.value = {} /\ \E e \in got.thrown : e.kind = "NotConfigured"

(***************************************************************************)
(* StandardSecrets.                                                        *)
(***************************************************************************)
\* C20: StandardSecrets construction fails with EmptySecretList when the list
\* is empty, with BlankSecretId when the list holds an entry that is empty
\* or whitespace only, and otherwise succeeds with secretIds equal to the
\* input, in the same order.
C20_SecretsValidation ==
    Done("StandardSecrets") =>
        IF Len(args.secretIds) = 0 THEN Threw("EmptySecretList") /\ returned = {}
        ELSE IF \E i \in 1..Len(args.secretIds) : WhitespaceOnly(args.secretIds[i])
        THEN Threw("BlankSecretId") /\ returned = {}
        ELSE /\ thrown = {}
             /\ returned # {}
             /\ \A group \in returned : group.secretIds = args.secretIds

\* a valid id followed by one of a space and a tab
C20_Witness ==
    /\ Done("StandardSecrets")
    /\ args.secretIds = <<<<"d", "b">>, <<" ", "\t">>>>
    /\ Threw("BlankSecretId")

\* the ids of a list, each once, in the order of first appearance
RECURSIVE EachOnce(_)
EachOnce(list) ==
    IF list = <<>> THEN <<>>
    ELSE LET front == EachOnce(SubSeq(list, 1, Len(list) - 1))
             last  == list[Len(list)]
         IN  IF \E i \in 1..Len(front) : front[i] = last THEN front ELSE Append(front, last)

\* the characters of an id as one string
RECURSIVE Spelled(_)
Spelled(id) == IF id = <<>> THEN "" ELSE Spelled(SubSeq(id, 1, Len(id) - 1)) \o id[Len(id)]

\* the ids of a list as a message names them: separated by a comma and a space
RECURSIVE Listed(_)
Listed(ids) ==
    IF ids = <<>> THEN ""
    ELSE IF Len(ids) = 1 THEN Spelled(ids[1])
    ELSE Listed(SubSeq(ids, 1, Len(ids) - 1)) \o ", " \o Spelled(ids[Len(ids)])

\* C21: on a constructed StandardSecrets, getSecret(id) returns a declared
\* secret of that id exactly when id is one of the ids passed at construction
\* (also when the list repeats ids), and for every other id fails with
\* SecretNotFound whose message lists every available id.
C21_GetSecretIffDeclared ==
    (Done("StandardSecrets") /\ got # NoRead /\ got.name = "getSecret") =>
        IF \E i \in 1..Len(args.secretIds) : args.secretIds[i] = got.arg
        THEN /\ got.thrown = {}
             /\ got.value # {}
             /\ \A name \in got.value :
                   \E secret \in DeclaredOfType("gcp:secretmanager:Secret") :
                       secret.name = name /\ secret.props.secretId = got.arg
        ELSE /\ got.value = {}
             /\ got.thrown # {}
             /\ \A e \in got.thrown :
                   /\ e.kind = "SecretNotFound"
                   /\ e.secretId = Spelled(got.arg)
                   /\ e.available = Listed(EachOnce(args.secretIds))

\* db, k, db declared and x asked for: not found, available are db and k
C21_Witness ==
    /\ Done("StandardSecrets")
    /\ args.secretIds = <<<<"d", "b">>, <<"k">>, <<"d", "b">>>>
    /\ got # NoRead /\ got.name = "getSecret" /\ got.arg = <<"x">>
    /\ \E e \in got.thrown : e.kind = "SecretNotFound" /\ e.available = "db, k"

(***************************************************************************)
(* StandardIdentity.                                                       *)
(***************************************************************************)
\* the error the statements give for the first violated identity check
FirstIdentityFailure(a) ==
    IF a.projectId = "" THEN "BlankProjectId"
    ELSE IF ~(6 <= Len(a.saId) /\ Len(a.saId) <= 30) THEN "InvalidServiceAccountIdLength"
    ELSE IF a.k8sNamespace = "" THEN "BlankNamespace"
    ELSE IF a.k8sSaName = "" THEN "BlankServiceAccountName"
    ELSE "none"

ServiceAccountOrBindingDeclared ==
    \/ DeclaredOfType("gcp:serviceaccount:Account") # {}
    \/ DeclaredOfType("gcp:projects:IAMMember") # {}
    \/ DeclaredOfType("gcp:serviceaccount:IAMBinding") # {}

\* C22: StandardIdentity construction succeeds exactly when projectId is
\* non-blank, saId has 6 to 30 characters and k8sNamespace and k8sSaName are
\* non-blank; otherwise it fails with the error of the first violated check
\* in the order BlankProjectId, InvalidServiceAccountIdLength, BlankNamespace,
\* BlankServiceAccountName, and no service account or binding has been
\* declared.
C22_IdentityValidationOrder ==
    Done("StandardIdentity") =>
        IF FirstIdentityFailure(args) = "none"
        THEN thrown = {} /\ returned # {} /\ ServiceAccountOrBindingDeclared
        ELSE /\ Threw(FirstIdentityFailure(args))
             /\ returned = {}
             /\ ~ServiceAccountOrBindingDeclared

\* an saId of 5 characters beside an empty namespace and an empty account name
C22_Witness ==
    /\ Done("StandardIdentity")
    /\ args.projectId = "my-project" /\ args.saId = "short"
    /\ args.k8sNamespace = "" /\ args.k8sSaName = ""
    /\ Threw("InvalidServiceAccountIdLength") /\ ~ServiceAccountOrBindingDeclared

(***************************************************************************)
(* Order of declaration in a composite.                                    *)
(***************************************************************************)
\* the positions in the declaration order of a group: the component of the
\* given type and the resources declared under it
GroupPositions(componentType) ==
    {i \in DOMAIN declared :
        \/ declared[i].type = componentType
        \/ \E j \in DOMAIN declared : /\ declared[j].type = componentType
                                      /\ declared[i].parent = declared[j].name}

AllBefore(earlier, later) == \A i \in earlier : \A j \in later : i < j

NamesBefore(i) == {declared[j].name : j \in 1..(i - 1)}

\* what a declared resource refers to: its parent, what it depends on, and
\* the network, subnetwork and cluster its properties name
ReferencesOf(r) ==
    (IF r.parent = "" THEN {} ELSE {r.parent}) \cup r.dependsOn \cup
    (IF r.type = "gcp:container:Cluster" THEN {r.props.network, r.props.subnetwork} ELSE {}) \cup
    (IF r.type = "gcp:container:NodePool" THEN {r.props.cluster} ELSE {})

\* C23: in every composite construction the resource groups are declared in
\* dependency order: the network group before the cluster group, the cluster
\* group before the secrets and identity groups, inside the cluster group the
\* cluster before the node pool, and nothing before what it references.
C23_DeclaredInDependencyOrder ==
    Done("StandardPlatform") =>
        /\ AllBefore(GroupPositions("x-infra-kit:networking:StandardVPC"),
                     GroupPositions("x-infra-kit:compute:StandardCluster"))
        /\ AllBefore(GroupPositions("x-infra-kit:compute:StandardCluster"),
                     GroupPositions("x-infra-kit:security:StandardSecrets")
                         \cup GroupPositions("x-infra-kit:security:StandardIdentity"))
        /\ \A i, j \in DOMAIN declared :
               /\ declared[i].type = "gcp:container:Cluster"
               /\ declared[j].type = "gcp:container:NodePool"
               => i < j
        /\ \A i \in DOMAIN declared : ReferencesOf(declared[i]) \subseteq NamesBefore(i)
        /\ GroupPositions("x-infra-kit:compute:StandardCluster") # {}
               => GroupPositions("x-infra-kit:networking:StandardVPC") # {}
        /\ GroupPositions("x-infra-kit:security:StandardSecrets")
               \cup GroupPositions("x-infra-kit:security:StandardIdentity") # {}
               => GroupPositions("x-infra-kit:compute:StandardCluster") # {}

\* a composite with all four groups
C23_Witness ==
    /\ Done("StandardPlatform") /\ returned # {}
    /\ GroupPositions("x-infra-kit:security:StandardSecrets") # {}
    /\ GroupPositions("x-infra-kit:security:StandardIdentity") # {}
    /\ DeclaredOfType("gcp:container:NodePool") # {}
    /\ DeclaredOfType("gcp:compute:Subnetwork") # {}

(***************************************************************************)
(* What a failed composite construction leaves declared.                   *)
(***************************************************************************)
ResourceGroupTypes ==
    {"x-infra-kit:networking:StandardVPC", "x-infra-kit:compute:StandardCluster",
     "x-infra-kit:security:StandardSecrets", "x-infra-kit:security:StandardIdentity"}

GroupsDeclared == {r.type : r \in {declared[i] : i \in DOMAIN declared}} \cap ResourceGroupTypes

\* C24: composite construction is fail-fast with nothing partial: whenever
\* StandardPlatform construction fails with a validation error (of the
\* network, cluster, secrets or identity input), no resource group has been
\* declared by that construction.
C24_NothingPartialOnFailure ==
    (Done("StandardPlatform") /\ thrown # {}) => GroupsDeclared = {}

\* a workload identity without a namespace: the network and cluster groups
\* are declared when IncompleteIdentityConfig is thrown
C24_Witness ==
    /\ Done("StandardPlatform") /\ Threw("IncompleteIdentityConfig")
    /\ args.env = "dev" /\ args.secretIds = {} /\ args.clusterOverrides = {}
    /\ GroupsDeclared = {"x-infra-kit:networking:StandardVPC",
                         "x-infra-kit:compute:StandardCluster"}
    /\ DeclaredOfType("gcp:container:NodePool") # {}

\* C25: when StandardSecrets construction fails with BlankSecretId because of
\* a blank entry at any position of the list, no secret resource of that list
\* has been declared before the failure.
C25_AllIdsValidatedFirst ==
    (Done("StandardSecrets") /\ Threw("BlankSecretId"))
        => DeclaredOfType("gcp:secretmanager:Secret") = {}

\* the list db, "": the secret of db is declared when BlankSecretId is thrown
C25_Witness ==
    /\ Done("StandardSecrets") /\ Threw("BlankSecretId")
    /\ args.secretIds = << <<"d", "b">>, <<>> >>
    /\ \E secret \in DeclaredOfType("gcp:secretmanager:Secret") :
           secret.props.secretId = <<"d", "b">> /\ secret.name = "test-db"

(***************************************************************************)
(* Secondary ranges of a composite.                                        *)
(***************************************************************************)
SubnetRangeNames ==
    UNION {{subnet.props.podRange.rangeName, subnet.props.serviceRange.rangeName} :
           subnet \in DeclaredOfType("gcp:compute:Subnetwork")}

\* C26: in every successfully constructed composite the cluster's pod and
\* service secondary-range names are names of secondary ranges declared on
\* the subnet, for every clusterOverrides.
C26_ClusterRangesDeclaredOnSubnet ==
    (Done("StandardPlatform") /\ returned # {}) =>
        \A cluster \in DeclaredOfType("gcp:container:Cluster") :
            /\ cluster.props.clusterSecondaryRangeName \in SubnetRangeNames
            /\ cluster.props.servicesSecondaryRangeName \in SubnetRangeNames

\* clusterOverrides of podRangeName custom-pods: the cluster names a range
\* the subnet does not have
C26_Witness ==
    /\ Done("StandardPlatform") /\ returned # {}
    /\ args.clusterOverrides = {[podRangeName |-> {"custom-pods"}]}
    /\ \E cluster \in DeclaredOfType("gcp:container:Cluster") :
           cluster.props.clusterSecondaryRangeName = "custom-pods"
    /\ SubnetRangeNames = {"pod-ranges", "service-ranges"}

(***************************************************************************)
(* Environments no profile is written for.                                 *)
(***************************************************************************)
RecognizedEnvs == {"dev", "staging", "prod"}

\* C27: for every env outside dev, staging and prod, composite construction
\* falls through to the cost-optimized profile and then fails with
\* InvalidEnvironment while deriving the NetworkConfig, before any network or
\* cluster resource group is declared; no composite with an unrecognized env
\* is ever constructed.
C27_UnrecognizedEnvFails ==
    (Done("StandardPlatform") /\ args.env \notin RecognizedEnvs) =>
        /\ SelectProfile(args).class = "DevProfile"
        /\ Threw("InvalidEnvironment")
        /\ returned = {}
        /\ GroupsDeclared = {}

\* env qa with a workload identity and secrets asked for
C27_Witness ==
    /\ Done("StandardPlatform") /\ args.env = "qa" /\ args.projectId = "my-project"
    /\ args.secretIds # {} /\ args.workloadIdentity # {}
    /\ Threw("InvalidEnvironment") /\ Len(declared) = 1

(***************************************************************************)
(* Override keys that carry no value.                                      *)
(***************************************************************************)
\* C28: for each profile variant and each cluster field with a variant
\* default, getClusterConfig with overrides that carry no value for that
\* field (the key absent, or present with the value undefined) yields the
\* variant's default, not the generic ClusterConfig default.
C28_NoValueKeepsVariantDefault ==
    Done("getClusterConfig") =>
        \A c \in returned : \A f \in TableFields :
            ~Supplied(f) => c[f] = ProfileTable[self.class][f]

\* { maxNodes: undefined, machineType: undefined } on the Prod profile: the
\* configuration has the generic 3 and e2-medium, not the variant's 10 and
\* n2-standard-4
C28_Witness ==
    /\ Done("getClusterConfig") /\ self.class = "ProdProfile"
    /\ DOMAIN args = {"maxNodes", "machineType"}
    /\ args.maxNodes = {} /\ args.machineType = {}
    /\ \E c \in returned : c.maxNodes = 3 /\ c.machineType = "e2-medium" /\ c.minNodes = 3

(***************************************************************************)
(* Node bounds of a constructed ClusterConfig.                             *)
(***************************************************************************)
\* C30: every successfully constructed ClusterConfig has
\* 1 <= minNodes <= maxNodes <= 50: minNodes is never zero or negative.
C30_NodeBounds ==
    (Done("ClusterConfig") \/ Done("getClusterConfig")) =>
        \A c \in returned : 1 <= c.minNodes /\ c.minNodes <= c.maxNodes /\ c.maxNodes <= 50

\* minNodes -1 beside the default maxNodes: the ClusterConfig is constructed
C30_Witness ==
    /\ Done("ClusterConfig") /\ args.minNodes = {-1} /\ args.maxNodes = {}
    /\ \E c \in returned : c.minNodes = -1 /\ c.maxNodes = 3

(***************************************************************************)
(* Profiles keep nothing between calls.                                    *)
(***************************************************************************)
NoOverrides(entry) == DOMAIN entry.overrides = {}

SameCall(a, b) ==
    /\ a.call = b.call
    /\ DOMAIN a.overrides = DOMAIN b.overrides
    /\ \A k \in DOMAIN a.overrides : a.overrides[k] = b.overrides[k]

DocumentedLabels(k) ==
    IF k = "environment" THEN self.env
    ELSE IF k = "managed-by" THEN "pulumi"
    ELSE self.projectId

\* whatever was called before, a call answers as it does on a new profile
AnswersIgnoreHistory ==
    \A i \in DOMAIN held :
        /\ (held[i].call = "getClusterConfig" /\ NoOverrides(held[i])) =>
               /\ \A c \in held[i].value :
                      \A f \in TableFields : c[f] = ProfileTable[self.class][f]
               /\ ProfileUsable => held[i].value # {}
        /\ held[i].call = "commonLabels" =>
               \A labels \in held[i].value :
                   /\ DOMAIN labels = {"environment", "managed-by", "project"}
                   /\ \A k \in DOMAIN labels : labels[k] = DocumentedLabels(k)
        /\ \A j \in DOMAIN held :
               SameCall(held[i], held[j]) =>
                   held[i].thrown = held[j].thrown /\ held[i].value = held[j].value

\* a call adds one result to what the caller holds and alters neither the
\* results held before nor the profile
CallAltersNothingHeld ==
    /\ self' = self
    /\ Len(held') = Len(held) + 1
    /\ \A i \in DOMAIN held : held'[i] = held[i]

\* C29: profiles are stateless: after any sequence of getNetworkConfig and
\* getClusterConfig calls on one profile, with arbitrary overrides and
\* including failing calls, a following getClusterConfig() with no overrides
\* returns the variant's table defaults and commonLabels is unchanged; every
\* call returns a fresh value and the configurations returned earlier are
\* not altered by later calls.
C29_ProfilesStateless == []AnswersIgnoreHistory /\ [][CallAltersNothingHeld]_vars

\* on a Prod profile: maxNodes 20 returned, then a failing maxNodes 0, then no
\* overrides: 10 again, and the first result still says 20
C29_Witness ==
    /\ op = "session" /\ self.class = "ProdProfile" /\ Len(held) = 3
    /\ held[1].call = "getClusterConfig" /\ \E c \in held[1].value : c.maxNodes = 20
    /\ held[2].call = "getClusterConfig" /\ held[2].thrown # {} /\ held[2].value = {}
    /\ held[3].call = "getClusterConfig" /\ NoOverrides(held[3])
    /\ \E c \in held[3].value : c.maxNodes = 10 /\ c.machineType = "n2-standard-4"
====
